---- MODULE Spec2Model ----
(***************************************************************************)
(* Model of the Telegram collector of 4CAT                                 *)
(* (datasources/telegram/search_telegram.py): the backfill entity loop     *)
(* gather_posts, the flush path save_files / update_latest_markers, the    *)
(* continuous collection loop and the restart of a continuous collection.  *)
(*                                                                         *)
(* A message is a record [chan, id, date, action, replies]; chan is the    *)
(* raw channel id found in _input_chat.channel_id, or NoChan when the      *)
(* chat is not a channel (a basic group or a user chat has no channel_id). *)
(* A serialized record keeps [q, chan, id, date]; q is the position of the *)
(* work list that yielded it (0 for records added by an event handler).    *)
(***************************************************************************)
EXTENDS Integers, Sequences, FiniteSets, TLC

\* ---- bounds of the model ------------------------------------------------
MaxPosted == 2       \* messages posted upstream after the first start
MaxErrors == 1       \* errors the upstream raises during the backfills
MaxNow == 4          \* last second of the wall clock
MaxRestarts == 1     \* crashes followed by a restart
MaxHandled == 2      \* records of a run after which no forward notice comes
MaxListenTimeouts == 4   \* errors the upstream raises in a run of SpecTimeouts
MaxUploads == 1      \* runs of the upload processor
MaxCalls == 2        \* calls of validate_query for one form
MaxQueries == 4      \* entries of the work list after which none is appended
MaxLookups == 2      \* requests for one id after which resolve_groups is not called

\* ---- program constants --------------------------------------------------
end_if_rate_limited == 600
InitialDelay == 10

\* ---- the upstream world --------------------------------------------------
Chats == {1, 2, 3}          \* chats 1 and 2 are channels, chat 3 is a basic group
NoChan == 0
IsChannel(e) == e \in {1, 2}
FloodWaits == {60, 600, 900}
EndOfDay == 3               \* the second 23:59:59 of the modelled day
StartOfTime == EndOfDay     \* wall clock when the first run starts

None == 0                   \* an unset date, an absent linked channel

VARIABLES
    parameters,             \* the stored query parameters of the dataset
    upstream,               \* chat -> its messages upstream, oldest first
    now,                    \* wall clock, in seconds
    markers,                \* dataset: checkpoint markers, key -> message id
    continuous,             \* dataset: is_continuous flag
    files,                  \* result folder: path -> records of the segment
    subfiles,               \* dataset: paths of the registered subfile records
    archive,                \* the member lists of the zip files written so far
    pc,                     \* position of the run
    queries,                \* work list of entity references
    processed,              \* gather_posts: number of work-list entries taken
    query,                  \* gather_posts: the current entity reference
    min_id, retries, delay, reply_channel_added, entity_posts,
    iterpos,                \* items the current iter_messages call delivered
    no_additional_queries,
    flawless,
    posts,                  \* execute_queries: records yielded by gather_posts
    interrupted,            \* "none", "stop" (INTERRUPT_STOP) or "cancel"
    queries_to_poll, continuous_posts, final_file_posts,
    outcome,                \* how the loop of each work-list entry ended
    last_batch,             \* the items handed to the latest save_files call
    returned,               \* what execute_queries returned
    error_status,           \* the catch-all of execute_queries reported an error
    errors,                 \* errors the upstream has raised so far
    restarts,               \* restarts so far
    progress,               \* dataset: the progress reported last, <<n, of>>
    connection,             \* how client.start() of the run ended
    session_file,           \* the session file of the client is on disk
    credentials,            \* dataset: api_id, api_hash and api_phone are stored
    error_budget,           \* errors the upstream raises in this behaviour
    suffix,                 \* dataset: the suffix of the result file
    rows,                   \* the rows of the table subfiles, in the order of insertion
    record,                 \* the Subfile object constructed last
    last_upload,            \* how the upload of the latest save_files call ended
    uploads,                \* runs of the upload processor so far
    form,                   \* the form of the latest validate_query call
    answer,                 \* what the upstream answered to client.start() of that call
    signed_in,              \* validate_query has signed the session in
    code_requests,          \* security codes the upstream was asked to send
    sign_ins,               \* sign-in attempts of the latest validate_query call
    vq,                     \* how the latest validate_query call ended
    calls,                  \* validate_query calls so far
    client,                 \* the TelegramClient of execute_queries: "none",
                            \* "connected" or "disconnected"
    drive,                  \* the owner of the dataset has drive credentials
    tg_codes,               \* user value tg_codes: the pool of unused codes
    temp_session_code,      \* user value temp_session_code
    session_code,           \* "session-code" of the parameters validate_query returned
    authenticated,          \* session name validate_query made its client with
    opened,                 \* session name execute_queries made its client with
    details_cache,          \* ids resolve_groups has looked up with success
    failures_cache,         \* ids resolve_groups has given up
    lookups,                \* requests resolve_groups has sent upstream in this run
    arg,                    \* the argument of the function applied last
    result                  \* what it returned

\* the table subfiles and what the latest registration and upload left
registry == <<rows, record, last_upload, uploads>>
dataset == <<markers, continuous, files, subfiles, archive, suffix, registry>>
loopvars == <<queries, processed, query, min_id, retries, delay,
              reply_channel_added, entity_posts, iterpos,
              no_additional_queries, outcome>>
contvars == <<queries_to_poll, continuous_posts, final_file_posts>>
\* the client of the run and what get_items keeps of the account
session == <<connection, session_file, credentials>>
\* what the loops of the collection leave alone
\* the form and what validate_query made of it
validation == <<form, answer, signed_in, code_requests, sign_ins, vq, calls>>
\* the session codes of the user and of the job
codes == <<tg_codes, temp_session_code, session_code>>
\* the session files the two clients were made with
artifact == <<authenticated, opened>>
\* the caches of resolve_groups
resolution == <<details_cache, failures_cache, lookups>>
\* a static method and its argument
application == <<arg, result>>
jobvars == <<session, progress, error_budget, validation, codes, artifact,
             drive, resolution, application>>
vars == <<parameters, client, jobvars, upstream, now, dataset, pc, loopvars, flawless,
          posts, interrupted, contvars, last_batch, returned, error_status,
          errors, restarts>>

\* ---- helpers ---------------------------------------------------------------
RECURSIVE Reverse(_)
Reverse(s) == IF s = <<>> THEN <<>> ELSE Append(Reverse(Tail(s)), Head(s))

Range(s) == {s[k] : k \in DOMAIN s}

EmptyMap == [k \in {} |-> 0]

\* an entity reference: a username (kind "name", v the chat it names) or a
\* numeric id (kind "id", v the number)
NameRef(e) == [kind |-> "name", v |-> e]
IdRef(n) == [kind |-> "id", v |-> n]

\* Telethon marks the id of a channel as -100<id> (here -(10^9 + id), the
\* largest power of ten the model checker's integers hold) and of a basic
\* group as -<id>
MarkedId(e) == IF IsChannel(e) THEN 0 - (1000000000 + e) ELSE 0 - e

\* the chat an entity reference resolves to
ChatOf(ref) ==
    IF ref.kind = "name" THEN ref.v
    ELSE IF ref.v < 0 - 1000000000 THEN 0 - ref.v - 1000000000
    ELSE IF ref.v < 0 THEN 0 - ref.v
    ELSE ref.v

\* utils.get_peer_id(n) of a bare integer returns the integer itself
utils_get_peer_id(n) == n

\* client.get_peer_id(query): an integer is returned as it is, any other
\* reference is resolved and gives the marked id of the chat
client_get_peer_id(ref) == IF ref.kind = "id" THEN ref.v ELSE MarkedId(ref.v)

Serialize(m, q) == [q |-> q, chan |-> m.chan, id |-> m.id, date |-> m.date]

\* client.iter_messages(entity, offset_date, min_id): the messages of the
\* chat with an id above min_id and a date up to offset_date, newest first
IterMessages(e, offset_date, mn) ==
    LET keep(m) == m.id > mn /\ (offset_date = None \/ m.date <= offset_date)
    IN  Reverse(SelectSeq(upstream[e], keep))

\* the messages posted since the collection was first started
Posted ==
    UNION {{<<e, k>> : k \in {j \in DOMAIN upstream[e] : upstream[e][j].date >= StartOfTime}} :
           e \in Chats}

NewMessage(e, d, a, r) ==
    [chan |-> IF IsChannel(e) THEN e ELSE NoChan, id |-> Len(upstream[e]) + 1,
     date |-> d, action |-> a, replies |-> r]

\* ---- shorthands for the stored parameters --------------------------------
max_items == parameters.items
min_date == parameters.min_date
max_date == parameters.max_date
include_actions == parameters.include_actions
retrieve_replies == parameters.retrieve_replies
resolve_refs == parameters.resolve_entities
continue_collection == parameters.continue_collection
save_to_gdrive == parameters.save_to_gdrive

\* the memory of a worker that has just been started (get_items, the head of
\* execute_queries and of gather_posts)
StartRun ==
    /\ queries' = parameters.query
    /\ processed' = 0
    /\ query' = IdRef(0)
    /\ min_id' = 0
    /\ retries' = 0
    /\ delay' = InitialDelay
    /\ reply_channel_added' = FALSE
    /\ entity_posts' = 0
    /\ iterpos' = 0
    /\ no_additional_queries' = FALSE
    /\ outcome' = <<>>
    /\ flawless' = TRUE
    /\ posts' = <<>>
    /\ interrupted' = "none"
    /\ queries_to_poll' = <<>>
    /\ continuous_posts' = <<>>
    /\ final_file_posts' = <<>>
    /\ last_batch' = <<>>
    /\ returned' = <<>>
    /\ error_status' = FALSE

\* ---- strings and session names -------------------------------------------------
\* a string is the sequence of its characters; a session code is one
\* character long here (four hexadecimal digits in the program)
NoCode == <<>>              \* None, or the empty string
Comma == ","

\* str.split(",")[0]: the characters before the first comma
FirstToken(str) ==
    IF \E i \in DOMAIN str : str[i] = Comma
    THEN SubSeq(str, 1, (CHOOSE i \in DOMAIN str :
                            /\ str[i] = Comma
                            /\ \A j \in 1..(i - 1) : str[j] # Comma) - 1)
    ELSE str

\* str.split(","): the list of the pieces between the commas
RECURSIVE Split(_)
Split(str) ==
    IF \E i \in DOMAIN str : str[i] = Comma
    THEN <<FirstToken(str)>>
         \o Split(SubSeq(str, Len(FirstToken(str)) + 2, Len(str)))
    ELSE <<str>>

\* str.replace(old, ""): every occurrence of old is taken out, from the left
RECURSIVE Replace(_, _)
Replace(str, old) ==
    IF Len(str) < Len(old) \/ old = <<>> THEN str
    ELSE IF SubSeq(str, 1, Len(old)) = old
    THEN Replace(SubSeq(str, Len(old) + 1, Len(str)), old)
    ELSE <<Head(str)>> \o Replace(Tail(str), old)

\* updated_old_codes = old_codes.replace(usable_old_code + ",", "")
UpdatedOldCodes(old_codes, usable_old_code) ==
    Replace(old_codes, usable_old_code \o <<Comma>>)

\* create_session_id(api_phone, api_id, api_hash): the hash of the account
SessionId == <<"h">>

\* session_id + session_code when there is a code, else session_id
SessionName(code) == IF code # NoCode THEN SessionId \o code ELSE SessionId

NoSession == <<>>

\* the parameters validate_query returned, as far as the session goes
StoredParameters == [key \in {"session-code"} |-> session_code]

\* dict.get(key, None)
Get(dict, key) == IF key \in DOMAIN dict THEN dict[key] ELSE NoCode

\* the key execute_queries would have to read
SessionCodeKey == "session-code"

\* query.get("sesson-code", None) in execute_queries
SessonCodeKey == "sesson-code"

\* the pools of unused codes a user may have, the code uuid4 gives, and what
\* get_telegram_jobs() returns
Pools == {<<>>, <<"a">>, <<"a", Comma, "b">>}
FreshCodes == {<<"n">>}
JobCounts == {0, 1}

\* ---- validate_query -----------------------------------------------------------
\* a form: is there a query, are the three credentials given, does the list
\* have more than 25 items for a user who is not privileged, is the user
\* logged in, is the API id a number, and the security code it carries
Forms == [has_query : BOOLEAN, has_credentials : BOOLEAN, too_many : BOOLEAN,
          logged_in : BOOLEAN, numeric_id : BOOLEAN,
          code : {"none", "right", "wrong"}]

EmptyForm == [has_query |-> FALSE, has_credentials |-> FALSE,
              too_many |-> FALSE, logged_in |-> FALSE, numeric_id |-> FALSE,
              code |-> "none"]

\* what the upstream answers when the client starts: it goes on, or it raises
\* FloodWaitError, ApiIdInvalidError, PhoneNumberInvalidError or another error
Answers == {"ok", "flood", "api_id_invalid", "phone_invalid", "other"}

\* the checks before the session id is made
ReachesSession(f) ==
    /\ f.has_query
    /\ f.has_credentials
    /\ ~f.too_many
    /\ f.logged_in

\* the checks before the client is made
Accepted(f) ==
    /\ ReachesSession(f)
    /\ f.numeric_id

\* the session code of a form of a user with jobs Telegram jobs: the code of
\* the form submitted before, else the first code of the pool, else a new one
SessionCode(jobs, fresh) ==
    IF jobs > 0
    THEN IF temp_session_code # NoCode THEN temp_session_code
         ELSE IF tg_codes # <<>> THEN FirstToken(tg_codes)
         ELSE fresh
    ELSE NoCode

\* the form takes a code from the pool
TakesFromPool(f, jobs) ==
    /\ ReachesSession(f)
    /\ jobs > 0
    /\ temp_session_code = NoCode
    /\ tg_codes # <<>>

\* one attempt whether or not the form carries a code
MaxAttemptsAlwaysOne(f) == 1

\* max_attempts of client.start(): 1 with a security code in the form, else 0
MaxAttempts(f) == IF f.code # "none" THEN 1 ELSE 0

\* validate_query(query, request, user), and client.start() in it: a session
\* that is signed in starts at once; otherwise the upstream is asked to send
\* a code, the code callback is tried max_attempts times and RuntimeError is
\* raised when no attempt has signed the session in
ValidateQuery(f, ans, jobs, fresh) ==
    /\ pc = "form"
    /\ calls < MaxCalls
    /\ calls' = calls + 1
    /\ form' = f
    /\ tg_codes' = IF TakesFromPool(f, jobs)
                   THEN UpdatedOldCodes(tg_codes, FirstToken(tg_codes))
                   ELSE tg_codes
    /\ temp_session_code' = IF ReachesSession(f) /\ jobs > 0
                            THEN SessionCode(jobs, fresh)
                            ELSE temp_session_code
    /\ authenticated' = IF Accepted(f)
                        THEN SessionName(SessionCode(jobs, fresh))
                        ELSE authenticated
    /\ IF ~Accepted(f)
       THEN \* QueryParametersException before the client is made
            /\ vq' = "rejected"
            /\ answer' = "none"
            /\ sign_ins' = 0
            /\ UNCHANGED <<signed_in, code_requests, session_file>>
       ELSE /\ answer' = ans
            /\ session_file' = TRUE
            /\ IF ans # "ok"
               THEN \* the outer except clauses
                    /\ vq' = "rejected"
                    /\ sign_ins' = 0
                    /\ UNCHANGED <<signed_in, code_requests>>
               ELSE IF signed_in
               THEN /\ vq' = "parameters"
                    /\ sign_ins' = 0
                    /\ UNCHANGED <<signed_in, code_requests>>
               ELSE /\ code_requests' = code_requests + 1
                    /\ sign_ins' = MaxAttempts(f)
                    /\ signed_in' = (MaxAttempts(f) > 0 /\ f.code = "right")
                    /\ vq' = IF MaxAttempts(f) > 0 /\ f.code = "right"
                             THEN "parameters" ELSE "needs_input"
    /\ credentials' = (vq' = "parameters")
    /\ session_code' = IF vq' = "parameters"
                       THEN SessionCode(jobs, fresh)
                       ELSE session_code
    /\ pc' = IF vq' = "parameters" THEN "connect" ELSE "form"
    /\ UNCHANGED <<parameters, client, connection, progress, error_budget,
                   opened, drive, resolution, application, upstream,
                   now, dataset, loopvars, flawless, posts, interrupted,
                   contvars, last_batch, returned, error_status, errors,
                   restarts>>

\* ---- the head of execute_queries ----------------------------------------------
ConnectResults == {"ok", "unauthorised", "failed"}

\* the session file after client.start() has ended with res: it is unlinked
\* for every failure
SessionFileAfterAnyFailure(res) == res = "ok"

\* the session file after client.start() has ended with res: the handler of
\* RuntimeError (cancel_start was called, the session needs a new security
\* code) unlinks it, the handler of any other exception leaves it; the
\* constructor of the client has created it when it was not there
SessionFileAfter(res) == res # "unauthorised"

\* the client after client.start(): both except clauses disconnect it
ClientAfterStart(res) == IF res = "ok" THEN "connected" ELSE "disconnected"

\* "finally: await client.disconnect()" of the try block around the
\* collection: the client after a step that ends at at
ClientAfter(at) ==
    IF at \in {"done", "raised"} THEN "disconnected" ELSE client

\* a step inside the try block of execute_queries
Finally == client' = ClientAfter(pc')

\* "save-to-gdrive" is on and get_owner_drive_credentials() has none
DriveMissing == save_to_gdrive /\ ~drive

\* the session file is made, client.start(phone=cancel_start) with its two
\* except clauses, and the set-up of the drive client: a failure makes
\* execute_queries return the empty list
Connect(res) ==
    /\ pc = "connect"
    /\ connection' = res
    /\ session_file' = SessionFileAfter(res)
    /\ opened' = SessionName(Get(StoredParameters, SessonCodeKey))
    /\ client' = ClientAfterStart(res)
    /\ IF res = "ok" /\ ~DriveMissing
       THEN pc' = "for"
       ELSE pc' = "done"
    /\ returned' = <<>>
    /\ UNCHANGED <<parameters, credentials, progress, error_budget,
                   validation, codes, authenticated, drive, resolution,
                   application, upstream, now, dataset, loopvars, flawless, posts, interrupted,
                   contvars, last_batch, error_status, errors, restarts>>

\* ---- gather_posts ----------------------------------------------------------
\* dataset.update_progress(processed / len(queries)): the fraction reported
UpdateProgress(n, of) == <<n, of>>

\* head of "for query in queries": take the next entry of the work list, or
\* end the generator when the list is used up
NextQuery ==
    /\ pc = "for"
    /\ IF processed < Len(queries)
       THEN /\ processed' = processed + 1
            /\ progress' = UpdateProgress(processed + 1, Len(queries))
            /\ query' = queries[processed + 1]
            /\ delay' = InitialDelay
            /\ min_id' = 0
            /\ retries' = 0
            /\ reply_channel_added' = FALSE
            /\ IF no_additional_queries
               THEN pc' = "for" /\ outcome' = Append(outcome, <<"not_run", 0>>)
               ELSE pc' = "fetch" /\ outcome' = Append(outcome, <<"fetching", 0>>)
            /\ UNCHANGED <<entity_posts, iterpos, no_additional_queries>>
       ELSE \* the generator returns and its local variables are gone
            /\ pc' = "save"
            /\ query' = IdRef(0)
            /\ delay' = InitialDelay
            /\ min_id' = 0
            /\ retries' = 0
            /\ reply_channel_added' = FALSE
            /\ entity_posts' = 0
            /\ iterpos' = 0
            /\ no_additional_queries' = FALSE
            /\ UNCHANGED <<processed, outcome, progress>>
    /\ UNCHANGED <<parameters, client, session, error_budget, validation, codes,
                   artifact, drive, resolution, application, upstream, now, dataset, queries, flawless, posts,
                   interrupted, contvars, last_batch,
                   returned, error_status, errors, restarts>>

\* head of "while True": reset the counter, look up the checkpoint marker of
\* a restarted continuous collection and call iter_messages
StartFetch ==
    /\ pc = "fetch"
    /\ entity_posts' = 0
    /\ iterpos' = 0
    /\ IF continuous /\ DOMAIN markers # {}
       THEN LET peer == client_get_peer_id(query)
            IN  /\ query' = IdRef(peer)
                /\ min_id' = IF peer # 0 /\ peer \in DOMAIN markers
                             THEN markers[peer] ELSE min_id
       ELSE UNCHANGED <<query, min_id>>
    /\ pc' = "iter"
    /\ UNCHANGED <<parameters, client, jobvars, upstream, now, dataset, queries, processed,
                   retries, delay, reply_channel_added,
                   no_additional_queries, outcome, flawless, posts,
                   interrupted, contvars, last_batch,
                   returned, error_status, errors, restarts>>

\* the end of an entry ends the generator
EndEntityAndLoop(how) ==
    /\ pc' = "save"
    /\ outcome' = [outcome EXCEPT ![processed] = <<how, 0>>]

\* the loop of the current entry is left; outcome keeps how (and, for a
\* rate limit, the seconds of the wait the upstream asked for)
EndEntity(how) ==
    /\ pc' = "for"
    /\ outcome' = [outcome EXCEPT ![processed] = <<how, 0>>]

\* the date check, off by one second
BelowMinDateOffByOne(m) == min_date # None /\ m.date + 1 < min_date

BelowMinDate(m) == min_date # None /\ m.date < min_date

ReachedMaxItems(n) == n >= max_items

\* the interruption error is caught by the catch-all of execute_queries
InterruptionCaught == pc' = "done"

\* ProcessorInterruptedException leaves the generator and is raised again by
\* execute_queries
InterruptionRaised == pc' = "raised"

\* one turn of "async for message in client.iter_messages(...)": the next
\* message and the whole loop body, or the end of the messages
IterNext ==
    /\ pc = "iter"
    /\ LET res == IterMessages(ChatOf(query), max_date, min_id)
       IN  IF iterpos >= Len(res)
           THEN /\ EndEntity("exhausted")
                /\ UNCHANGED <<entity_posts, iterpos, queries,
                               reply_channel_added, posts>>
           ELSE LET m == res[iterpos + 1]
                    found == /\ retrieve_replies
                             /\ ~reply_channel_added
                             /\ m.replies # None
                IN  /\ entity_posts' = entity_posts + 1
                    /\ iterpos' = iterpos + 1
                    /\ IF interrupted # "none"
                       THEN /\ InterruptionRaised
                            /\ UNCHANGED <<outcome, queries,
                                           reply_channel_added, posts>>
                       ELSE IF ~include_actions /\ m.action
                       THEN UNCHANGED <<pc, outcome, queries,
                                        reply_channel_added, posts>>
                       ELSE /\ found => Len(queries) < MaxQueries
                            /\ queries' = IF found
                                          THEN Append(queries, IdRef(utils_get_peer_id(m.replies)))
                                          ELSE queries
                            /\ reply_channel_added' = (reply_channel_added \/ found)
                            /\ IF BelowMinDate(m)
                               THEN EndEntity("min_date") /\ UNCHANGED posts
                               ELSE /\ posts' = Append(posts, Serialize(m, processed))
                                    /\ IF ReachedMaxItems(entity_posts + 1)
                                       THEN EndEntity("max_items")
                                       ELSE UNCHANGED <<pc, outcome>>
    /\ Finally
    /\ UNCHANGED <<parameters, jobvars, upstream, now, dataset, processed, query,
                   min_id, retries, delay, no_additional_queries, flawless,
                   interrupted, contvars, last_batch,
                   returned, error_status, errors, restarts>>

SkipErrors == {"ChannelPrivateError", "UsernameInvalidError",
               "BadRequestError", "ValueError"}

\* except ChannelPrivateError / UsernameInvalidError / BadRequestError /
\* ValueError: the entity is given up
SkipEntity(err) ==
    /\ pc = "iter"
    /\ errors < error_budget
    /\ errors' = errors + 1
    /\ flawless' = FALSE
    /\ EndEntity("skipped")
    /\ UNCHANGED <<parameters, client, jobvars, upstream, now, dataset, queries, processed,
                   query, min_id, retries, delay, reply_channel_added,
                   entity_posts, iterpos, no_additional_queries, posts,
                   interrupted, contvars, last_batch,
                   returned, error_status, restarts>>

\* the comparison with the ceiling, off by one
BelowCeilingInclusive(seconds) == seconds <= end_if_rate_limited

BelowCeiling(seconds) == seconds < end_if_rate_limited

\* except FloodWaitError
RateLimited(seconds) ==
    /\ pc = "iter"
    /\ errors < error_budget
    /\ errors' = errors + 1
    /\ outcome' = [outcome EXCEPT ![processed] = <<"rate_limited", seconds>>]
    /\ IF BelowCeiling(seconds)
       THEN /\ pc' = "fetch"
            /\ UNCHANGED <<flawless, no_additional_queries>>
       ELSE /\ flawless' = FALSE
            /\ no_additional_queries' = TRUE
            /\ pc' = "for"
    /\ UNCHANGED <<parameters, client, jobvars, upstream, now, dataset, queries, processed,
                   query, min_id, retries, delay, reply_channel_added,
                   entity_posts, iterpos, posts, interrupted, contvars,
                   last_batch,
                   returned, error_status, restarts>>

GivesUpOnTimeout(r) == r < 3

\* except TimeoutError
TimedOut ==
    /\ pc = "iter"
    /\ errors < error_budget
    /\ errors' = errors + 1
    /\ IF GivesUpOnTimeout(retries)
       THEN /\ flawless' = FALSE
            /\ EndEntity("timeout")
            /\ UNCHANGED delay
       ELSE /\ delay' = delay * 2
            /\ pc' = "fetch"
            /\ UNCHANGED <<flawless, outcome>>
    /\ UNCHANGED <<parameters, client, jobvars, upstream, now, dataset, queries, processed,
                   query, min_id, retries, reply_channel_added, entity_posts,
                   iterpos, no_additional_queries, posts, interrupted,
                   contvars, last_batch,
                   returned, error_status, restarts>>

\* the interrupt flag is raised from outside the worker, while it waits for
\* the upstream or sleeps between two turns of the continuous loop
Interrupt(kind) ==
    /\ pc \in {"iter", "listen"}
    /\ interrupted = "none"
    /\ interrupted' = kind
    /\ UNCHANGED <<parameters, client, jobvars, upstream, now, dataset, pc, loopvars, flawless,
                   posts, contvars, last_batch,
                   returned, error_status, errors, restarts>>

\* ---- serialize_obj -------------------------------------------------------------
\* a Python value: its kind, the name of its class where it is an object of
\* telethon.tl.types, and its content (the number of an int, a float or a
\* date, the characters of a str or of bytes, the items of a list, the
\* attributes of an object or the entries of a dict, by key)
Value(kind, name, val) == [kind |-> kind, name |-> name, val |-> val]

Unset == Value("unset", "", 0)
NoneValue == Value("none", "", 0)
Number(n) == Value("int", "", n)
Float(n) == Value("float", "", n)
Str(n) == Value("str", "", n)
Datetime(n) == Value("datetime", "", n)
Bytes(n) == Value("bytes", "", n)
List(items) == Value("list", "", items)
Dict(entries) == Value("dict", "", entries)
\* an object of telethon.tl.types or telethon.tl.custom.forward
Typed(name, attrs) == Value("typed", name, attrs)
\* an object of another telethon module
Struct == Value("struct", "", EmptyMap)
\* an object of a class from elsewhere
Foreign == Value("foreign", "", EmptyMap)

\* "scalars = (int, str, float, list, tuple, set, bool)"
scalars == {"int", "str", "float", "list", "tuple", "set", "bool"}

\* the entries of value and the entry key |-> v
With(value, key, v) ==
    [value EXCEPT !.val = [k \in DOMAIN value.val \cup {key} |->
                              IF k = key THEN v ELSE value.val[k]]]

\* datetime.timestamp() and bytes.hex()
Timestamp(value) == Float(value.val)
Hex(value) == Str(value.val)

\* serialize_obj(input_obj): a scalar or None is returned as it is; of an
\* object the attributes, of a dict the entries are mapped one by one: a
\* datetime to its timestamp, an object of telethon.tl.types to its own
\* mapping with the name of its class under "_type", a list to the list of
\* its mapped items, bytes to their hex string; an object of another telethon
\* module is left out, and so is every value whose type is not one of
\* scalars and that is not None, a dict among them (the branch for dicts
\* after that test is never reached)
RECURSIVE serialize_obj(_)
serialize_obj(input_obj) ==
    IF input_obj.kind \in scalars \/ input_obj.kind = "none" THEN input_obj
    ELSE LET obj == input_obj.val
             dropped(value) ==
                 \/ value.kind = "struct"
                 \/ /\ value.kind \notin {"datetime", "typed", "list", "bytes"}
                    /\ value.kind \notin scalars
                    /\ value.kind # "none"
             kept == {item \in DOMAIN obj : ~dropped(obj[item])}
         IN  Dict([item \in kept |->
                 LET value == obj[item]
                 IN  IF value.kind = "datetime" THEN Timestamp(value)
                     ELSE IF value.kind = "typed"
                     THEN With(serialize_obj(value), "_type", Str(value.name))
                     ELSE IF value.kind = "list"
                     THEN List([k \in DOMAIN value.val |->
                                   serialize_obj(value.val[k])])
                     ELSE IF value.kind = "bytes" THEN Hex(value)
                     ELSE value])

\* the messages serialize_obj is called with: an object with three attributes,
\* and a dict with the same entries; the values of the attributes are scalars,
\* dates, bytes, objects of telethon and of other modules, and objects, dicts
\* and lists of those
SerializeInputs ==
    LET Leaves == {Number(1), NoneValue, Datetime(1), Bytes("ab"), Struct, Foreign}
        Attrs(key, values) == {[k \in {key} |-> v] : v \in values}
        Nested ==
            {Typed("PeerChannel", a) : a \in Attrs("channel_id", {Number(1)})}
            \cup {Dict(a) : a \in Attrs("url", {Number(1)})}
            \cup {List(<<Number(1)>>)}
        Deep ==
            {Typed("MessageFwdHeader", a) :
                a \in Attrs("from_id", Nested \cup {Datetime(1)})}
            \cup {Dict(a) : a \in Attrs("web_preview", Nested)}
            \cup {List(<<v>>) : v \in {n \in Nested : n.kind # "list"}}
        Objects ==
            {[k \in {"id", "media", "fwd_from"} |->
                IF k = "id" THEN Number(1) ELSE IF k = "media" THEN v ELSE w] :
                v \in Leaves \cup Nested \cup Deep, w \in Leaves \cup Nested}
    IN  {Typed("Message", o) : o \in Objects} \cup {Dict(o) : o \in Objects}

\* serialize_obj is called with a message, or with what an earlier call
\* returned
SerializeObj(x) ==
    /\ x.kind # "unset"
    /\ arg' = x
    /\ result' = serialize_obj(x)
    /\ UNCHANGED <<parameters, client, session, progress, error_budget,
                   validation, codes, artifact, drive, resolution, upstream,
                   now, dataset, pc, loopvars, flawless, posts, interrupted,
                   contvars, last_batch, returned, error_status, errors,
                   restarts>>

\* ---- map_item and get_media_type -----------------------------------------------
\* an exception of the class err is raised
Raise(err) == Value("raise", err, 0)
Raised(v) == v.kind = "raise"

\* the first exception of the statements, in the order of their execution
FirstRaised(values) ==
    values[CHOOSE k \in DOMAIN values :
               /\ Raised(values[k])
               /\ \A j \in 1..(k - 1) : ~Raised(values[j])]

\* d[key]
Item(d, key) ==
    IF Raised(d) THEN d
    ELSE IF d.kind # "dict" THEN Raise("TypeError")
    ELSE IF key \in DOMAIN d.val THEN d.val[key]
    ELSE Raise("KeyError")

\* d.get(key, default)
GetOr(d, key, default) ==
    IF Raised(d) THEN d
    ELSE IF d.kind # "dict" THEN Raise("AttributeError")
    ELSE IF key \in DOMAIN d.val THEN d.val[key]
    ELSE default

\* the truth value of v in a condition
Truthy(v) ==
    /\ v.kind \notin {"raise", "none"}
    /\ v.kind = "str" => v.val # ""
    /\ v.kind \in {"int", "bool"} => v.val # 0
    /\ v.kind = "dict" => DOMAIN v.val # {}
    /\ v.kind = "list" => v.val # <<>>

False == Value("bool", "", 0)

\* re.sub(r"\s", "", title)
WithoutWhitespace(title) ==
    IF title.val = "a b" THEN Str("ab") ELSE title

\* mime_type.split("/")[0]
MajorType(mime_type) ==
    IF Raised(mime_type) THEN mime_type
    ELSE IF mime_type.kind # "str" THEN Raise("AttributeError")
    ELSE IF mime_type.val = "video/mp4" THEN Str("video")
    ELSE IF mime_type.val = "image/png" THEN Str("image")
    ELSE mime_type

\* int(value)
IntOf(value) ==
    IF Raised(value) THEN value
    ELSE IF value.kind \in {"int", "float"} THEN Number(value.val)
    ELSE Raise("TypeError")

\* datetime.fromtimestamp(value).strftime("%Y-%m-%d %H:%M:%S")
Formatted(value) ==
    IF Raised(value) THEN value
    ELSE IF value.kind \in {"int", "float"} THEN Value("date", "", value.val)
    ELSE Raise("TypeError")

\* json.dumps(entries): an entry that raises makes the call raise
Json(entries) ==
    IF \E k \in DOMAIN entries : Raised(entries[k])
    THEN entries[CHOOSE k \in DOMAIN entries : Raised(entries[k])]
    ELSE Value("json", "", entries)

\* strings put together: the parts, in their order
Joined(parts) ==
    IF \E k \in DOMAIN parts : Raised(parts[k])
    THEN FirstRaised(parts)
    ELSE Value("text", "", parts)

MediaTypes ==
    [t \in {"NoneType",
            "MessageMediaContact", "MessageMediaDocument", "MessageMediaEmpty",
            "MessageMediaGame", "MessageMediaGeo", "MessageMediaGeoLive",
            "MessageMediaInvoice", "MessageMediaPhoto", "MessageMediaPoll",
            "MessageMediaUnsupported", "MessageMediaVenue",
            "MessageMediaWebPage"} |->
        CASE t = "NoneType" -> ""
          [] t = "MessageMediaContact" -> "contact"
          [] t = "MessageMediaDocument" -> "document"
          [] t = "MessageMediaEmpty" -> ""
          [] t = "MessageMediaGame" -> "game"
          [] t = "MessageMediaGeo" -> "geo"
          [] t = "MessageMediaGeoLive" -> "geo_live"
          [] t = "MessageMediaInvoice" -> "invoice"
          [] t = "MessageMediaPhoto" -> "photo"
          [] t = "MessageMediaPoll" -> "poll"
          [] t = "MessageMediaUnsupported" -> "unsupported"
          [] t = "MessageMediaVenue" -> "venue"
          [] t = "MessageMediaWebPage" -> "url"]

\* get_media_type(media): the AttributeError of None and the KeyError of a
\* type that is not in the table give the empty string
get_media_type(media) ==
    IF Raised(media) THEN media
    ELSE IF media.kind # "dict" THEN Str("")
    ELSE LET t == GetOr(media, "_type", NoneValue)
         IN  IF t.kind = "str" /\ t.val \in DOMAIN MediaTypes
             THEN Str(MediaTypes[t.val])
             ELSE Str("")

contact_data == {"phone_number", "first_name", "last_name", "vcard", "user_id"}

\* the fields of the record map_item returns
ItemFields ==
    {"id", "thread_num_id", "thread_id", "chat", "author", "author_username",
     "author_name", "author_is_bot", "body", "reply_to", "views", "timestamp",
     "unix_timestamp", "timestamp_edited", "unix_timestamp_edited",
     "author_forwarded_from_name", "author_forwarded_from_username",
     "timestamp_forwarded_from", "unix_timestamp_forwarded_from",
     "attachment_type", "attachment_data", "attachment_filename"}

\* map_item(message): the record, or the exception that leaves the method
map_item(message) ==
    LET \* the thread
        chat == Item(message, "_chat")
        chat_username == Item(chat, "username")
        chat_title == Item(chat, "title")
        chat_id == Item(chat, "id")
        thread ==
            IF Raised(chat) THEN chat
            ELSE IF chat.kind = "none" THEN Str("error-no-chat")
            ELSE IF Raised(chat_username) THEN chat_username
            ELSE IF Truthy(chat_username) THEN chat_username
            ELSE IF Raised(chat_title) THEN chat_title
            ELSE IF Truthy(chat_title) THEN WithoutWhitespace(chat_title)
            ELSE Str("unknown")
        thread_num_id ==
            IF Raised(chat) THEN chat
            ELSE IF chat.kind = "none" THEN Str("error-no-id")
            ELSE IF Raised(chat_id) THEN chat_id
            ELSE IF Truthy(chat_id) THEN chat_id
            ELSE Str("unknown")
        \* the author
        sender == GetOr(message, "_sender", NoneValue)
        user_id == IF Truthy(sender) THEN Item(sender, "id") ELSE Str("")
        user_is_bot == IF Truthy(sender) THEN GetOr(sender, "bot", False)
                       ELSE Str("")
        sender_username == IF Truthy(sender)
                           THEN GetOr(sender, "username", NoneValue)
                           ELSE NoneValue
        username == IF Truthy(sender_username) THEN sender_username ELSE Str("")
        first_name == IF Truthy(sender)
                      THEN GetOr(sender, "first_name", NoneValue)
                      ELSE NoneValue
        last_name == IF Truthy(sender)
                     THEN GetOr(sender, "last_name", NoneValue)
                     ELSE NoneValue
        fullname == Joined(SelectSeq(<<first_name, last_name>>, Truthy))
        \* the attachment
        media == Item(message, "media")
        media_type == get_media_type(media)
        kind == IF Raised(media_type) THEN "" ELSE media_type.val
        contact == IF Truthy(GetOr(media, "contact", False))
                   THEN Item(media, "contact")
                   ELSE IF contact_data \subseteq DOMAIN media.val
                   THEN media
                   ELSE Raise("ProcessorException")
        document == Item(media, "document")
        photo == Item(media, "photo")
        poll == Item(media, "poll")
        results == Item(media, "results")
        answers == Item(poll, "answers")
        texts == [k \in DOMAIN answers.val |->
                     IF Raised(Item(answers.val[k], "option"))
                     THEN Item(answers.val[k], "option")
                     ELSE Item(answers.val[k], "text")]
        options ==
            IF kind # "poll" THEN Dict(EmptyMap)
            ELSE IF Raised(answers) THEN answers
            ELSE IF answers.kind # "list" THEN Raise("TypeError")
            ELSE IF \E k \in DOMAIN texts : Raised(texts[k])
            THEN FirstRaised(texts)
            ELSE Dict([option \in {answers.val[k].val["option"].val :
                                      k \in DOMAIN answers.val} |->
                          texts[CHOOSE k \in DOMAIN texts :
                                    /\ answers.val[k].val["option"].val = option
                                    /\ \A j \in DOMAIN texts :
                                          answers.val[j].val["option"].val = option
                                              => j <= k]])
        voted == Item(results, "results")
        votes ==
            IF Raised(voted) THEN voted
            ELSE IF ~Truthy(voted)
            THEN Value("votes", "", [option \in DOMAIN options.val |-> 0 - 1])
            ELSE IF voted.kind # "list" THEN Raise("TypeError")
            ELSE LET each == [k \in DOMAIN voted.val |->
                        IF Raised(Item(voted.val[k], "option"))
                        THEN Item(voted.val[k], "option")
                        ELSE IF Item(voted.val[k], "option").val
                                    \notin DOMAIN options.val
                        THEN Raise("KeyError")
                        ELSE Item(voted.val[k], "voters")]
                 IN  IF \E k \in DOMAIN each : Raised(each[k])
                     THEN FirstRaised(each)
                     ELSE Value("votes", "", each)
        attachment_type ==
            IF kind = "document" THEN MajorType(Item(document, "mime_type"))
            ELSE media_type
        reference(attachment) ==
            Json([key \in {"id", "dc_id", "file_reference"} |->
                     Item(attachment, key)])
        attachment_data ==
            IF kind = "contact"
            THEN Json([property \in contact_data |->
                          GetOr(contact, property, NoneValue)])
            ELSE IF kind = "document"
            THEN IF attachment_type = Str("video") THEN reference(document)
                 ELSE IF Raised(attachment_type) THEN attachment_type
                 ELSE Str("")
            ELSE IF kind = "photo" THEN reference(photo)
            ELSE IF kind = "poll"
            THEN IF Raised(options) THEN options
                 ELSE Json([key \in {"question", "voters", "answers"} |->
                          IF key = "question" THEN Item(poll, "question")
                          ELSE IF key = "voters" THEN Item(results, "total_voters")
                          ELSE votes])
            ELSE IF kind = "url"
            THEN GetOr(GetOr(media, "web_preview", Dict(EmptyMap)), "url", Str(""))
            ELSE Str("")
        attachment_filename ==
            IF kind = "photo" /\ ~Raised(attachment_data)
            THEN Joined(<<thread, Str("-"), Item(message, "id"), Str(".jpeg")>>)
            ELSE Str("")
        \* the forward
        fwd_from == GetOr(message, "fwd_from", NoneValue)
        forwarded == /\ Truthy(fwd_from)
                     /\ fwd_from.kind = "dict"
                     /\ "from_id" \in DOMAIN fwd_from.val
                     /\ fwd_from.val["from_id"].kind # "int"
        forwarded_timestamp ==
            IF forwarded THEN IntOf(Item(fwd_from, "date")) ELSE Str("")
        from_data == IF forwarded THEN fwd_from.val["from_id"] ELSE NoneValue
        from_name ==
            IF Truthy(from_data) /\ Truthy(GetOr(from_data, "from_name", NoneValue))
            THEN Item(fwd_from, "from_name")
            ELSE IF forwarded /\ Truthy(GetOr(fwd_from, "from_name", NoneValue))
            THEN GetOr(fwd_from, "from_name", NoneValue)
            ELSE Str("")
        resolved == /\ Truthy(from_data)
                    /\ from_data.kind = "dict"
                    /\ {"user", "chats"} \cap DOMAIN from_data.val # {}
        of_user == resolved /\ "user" \in DOMAIN from_data.val
        of_chats == resolved /\ ~of_user
        user == from_data.val["user"]
        user_first_name == GetOr(user, "first_name", NoneValue)
        user_name == IF Raised(user_first_name) THEN user_first_name
                     ELSE IF Truthy(user_first_name) THEN user_first_name
                     ELSE from_name
        chats == from_data.val["chats"]
        channel_id == GetOr(from_data, "channel_id", NoneValue)
        matching(c) == \/ Raised(Item(c, "id"))
                       \/ Item(c, "id") = channel_id
                       \/ channel_id.kind = "none"
        named == SelectSeq(chats.val, matching)
        usernames == [k \in DOMAIN named |->
                         IF Raised(Item(named[k], "id")) THEN Item(named[k], "id")
                         ELSE Item(named[k], "username")]
        forwarded_username ==
            IF of_user
            THEN IF Raised(GetOr(user, "username", NoneValue))
                    \/ Truthy(GetOr(user, "username", NoneValue))
                 THEN GetOr(user, "username", NoneValue)
                 ELSE Str("")
            ELSE IF of_chats
            THEN IF chats.kind # "list" THEN Raise("TypeError")
                 ELSE IF \E k \in DOMAIN usernames : Raised(usernames[k])
                 THEN FirstRaised(usernames)
                 ELSE IF named # <<>> THEN usernames[Len(named)]
                 ELSE Str("")
            ELSE Str("")
        forwarded_name ==
            IF Raised(from_name) \/ ~of_user THEN from_name
            ELSE IF Truthy(GetOr(fwd_from, "last_name", NoneValue))
            THEN Joined(<<user_name, Item(user, "last_name")>>)
            ELSE user_name
        \* the record
        views == Item(message, "views")
        date == Item(message, "date")
        edit_date == Item(message, "edit_date")
        msg == [field \in ItemFields |->
            CASE field = "id" -> Item(message, "id")
              [] field = "thread_num_id" -> thread_num_id
              [] field \in {"thread_id", "chat"} -> thread
              [] field = "author" -> user_id
              [] field = "author_username" -> username
              [] field = "author_name" -> fullname
              [] field = "author_is_bot" -> user_is_bot
              [] field = "body" -> Item(message, "message")
              [] field = "reply_to" -> GetOr(message, "reply_to_msg_id", Str(""))
              [] field = "views" -> IF Truthy(views) \/ Raised(views) THEN views
                                    ELSE Str("")
              [] field = "timestamp" -> Formatted(date)
              [] field = "unix_timestamp" -> IntOf(date)
              [] field = "timestamp_edited" ->
                    IF Truthy(edit_date) \/ Raised(edit_date)
                    THEN Formatted(edit_date) ELSE Str("")
              [] field = "unix_timestamp_edited" ->
                    IF Truthy(edit_date) \/ Raised(edit_date)
                    THEN IntOf(edit_date) ELSE Str("")
              [] field = "author_forwarded_from_name" -> forwarded_name
              [] field = "author_forwarded_from_username" -> forwarded_username
              [] field = "timestamp_forwarded_from" ->
                    IF Truthy(forwarded_timestamp) \/ Raised(forwarded_timestamp)
                    THEN Formatted(forwarded_timestamp) ELSE Str("")
              [] field = "unix_timestamp_forwarded_from" -> forwarded_timestamp
              [] field = "attachment_type" -> attachment_type
              [] field = "attachment_data" -> attachment_data
              [] field = "attachment_filename" -> attachment_filename]
        \* the statements that may raise, in the order of their execution
        statements == <<thread, thread_num_id, user_id, media_type,
                        attachment_type, options, attachment_data,
                        attachment_filename, forwarded_timestamp, from_name,
                        forwarded_username, forwarded_name, msg["id"], msg["body"],
                        msg["views"], msg["timestamp"],
                        msg["timestamp_edited"]>>
    IN  IF \E k \in DOMAIN statements : Raised(statements[k])
        THEN FirstRaised(statements)
        ELSE Dict(msg)

\* the messages gather_posts yields: what serialize_obj made of a message,
\* its chat, its sender, its media and its forward header. The chat is None
\* or has the attributes of the entity (a basic group has no username, a
\* channel may have one that is None); the media has the name of its class
\* under "_type"; the forward header names nothing, a peer, a hidden sender
\* by name only, or a peer that resolve_groups has filled in
MapInputs ==
    LET ChatAttrs == ("username" :> Str("chan")) @@ ("title" :> Str("a b"))
                     @@ ("id" :> Number(1))
        MapChats ==
            {NoneValue}
            \cup {Dict([k \in S |-> ChatAttrs[k]]) : S \in SUBSET DOMAIN ChatAttrs}
            \cup {Dict([ChatAttrs EXCEPT !["username"] = NoneValue])}
        SenderAttrs == ("id" :> Number(2)) @@ ("username" :> Str("user"))
                       @@ ("first_name" :> Str("f")) @@ ("last_name" :> Str("l"))
        MapSenders ==
            {NoneValue}
            \cup {Dict([k \in S |-> SenderAttrs[k]]) :
                     S \in {DOMAIN SenderAttrs, {"id"}, {"first_name"}}}
        Media(type, attrs) == Dict(("_type" :> Str(type)) @@ attrs)
        FileAttrs == ("id" :> Number(3)) @@ ("dc_id" :> Number(4))
                     @@ ("file_reference" :> Str("ab"))
        ContactAttrs == [property \in contact_data |-> Str("c")]
        PollAttrs == ("question" :> Str("q"))
                     @@ ("answers" :> List(<<Dict(("option" :> Str("o"))
                                                  @@ ("text" :> Str("t")))>>))
        MapMedia ==
            {NoneValue,
             Media("MessageMediaContact", ContactAttrs),
             Media("MessageMediaContact", "contact" :> Dict(ContactAttrs)),
             Media("MessageMediaContact", EmptyMap),
             Media("MessageMediaDocument",
                   "document" :> Dict(("mime_type" :> Str("video/mp4")) @@ FileAttrs)),
             Media("MessageMediaDocument",
                   "document" :> Dict(("mime_type" :> Str("image/png")) @@ FileAttrs)),
             Media("MessageMediaDocument", "document" :> NoneValue),
             Media("MessageMediaPhoto", "photo" :> Dict(FileAttrs)),
             Media("MessageMediaPhoto", "photo" :> NoneValue),
             Media("MessageMediaPoll",
                   ("poll" :> Dict(PollAttrs))
                   @@ ("results" :> Dict(("total_voters" :> NoneValue)
                                         @@ ("results" :> NoneValue)))),
             Media("MessageMediaPoll",
                   ("poll" :> Dict(PollAttrs))
                   @@ ("results" :>
                         Dict(("total_voters" :> Number(1))
                              @@ ("results" :>
                                    List(<<Dict(("option" :> Str("o"))
                                                @@ ("voters" :> Number(1)))>>))))),
             Media("MessageMediaWebPage", "webpage" :> Dict("url" :> Str("u"))),
             Media("MessageMediaWebPage", "web_preview" :> Dict("url" :> Str("u"))),
             Media("MessageMediaGame", EmptyMap)}
        Peer == ("_type" :> Str("PeerChannel")) @@ ("channel_id" :> Number(1))
        User == ("_type" :> Str("PeerUser")) @@ ("user_id" :> Number(2))
        MapForwards ==
            {NoneValue,
             Dict(("date" :> Float(1)) @@ ("from_id" :> Dict(Peer))),
             Dict(("date" :> Float(1)) @@ ("from_id" :> NoneValue)
                  @@ ("from_name" :> Str("n"))),
             Dict(("date" :> Float(1))
                  @@ ("from_id" :> Dict(Peer @@ ("chats" :>
                          List(<<Dict(("id" :> Number(1))
                                      @@ ("username" :> Str("chan")))>>))))),
             Dict(("date" :> Float(1))
                  @@ ("from_id" :> Dict(Peer @@ ("chats" :>
                          List(<<Dict("id" :> Number(1))>>))))),
             Dict(("date" :> Float(1))
                  @@ ("from_id" :>
                        Dict(User @@ ("user" :> Dict(("first_name" :> Str("f"))
                                                     @@ ("username" :> Str("user"))))))),
             Dict(("date" :> Float(1))
                  @@ ("from_id" :>
                        Dict(User @@ ("user" :> Dict("first_name" :> Str("f"))))))}
    IN  {Dict(("id" :> Number(1)) @@ ("message" :> Str("m"))
              @@ ("views" :> Number(5)) @@ ("date" :> Float(1))
              @@ ("edit_date" :> NoneValue) @@ ("_chat" :> c)
              @@ ("_sender" :> s) @@ ("media" :> m) @@ ("fwd_from" :> f)) :
            c \in MapChats, s \in MapSenders, m \in MapMedia, f \in MapForwards}

\* map_item is called with a message
MapItem(message) ==
    /\ message.kind = "dict"
    /\ arg' = message
    /\ result' = map_item(message)
    /\ UNCHANGED <<parameters, client, session, progress, error_budget,
                   validation, codes, artifact, drive, resolution, upstream,
                   now, dataset, pc, loopvars, flawless, posts, interrupted,
                   contvars, last_batch, returned, error_status, errors,
                   restarts>>

\* ---- resolve_groups -----------------------------------------------------------
\* the ids of the channels and users the messages refer to; the two caches
\* are keyed by the bare number
Ids == {1, 2}

NoLookups == [i \in Ids |-> 0]

\* the values of a flattened message: a scalar, a reference to a channel or
\* to a user, or a mapping, given as the list of its values
Scalar == [kind |-> "scalar", id |-> 0, items |-> <<>>]
PeerChannel(i) == [kind |-> "PeerChannel", id |-> i, items |-> <<>>]
PeerUser(i) == [kind |-> "PeerUser", id |-> i, items |-> <<>>]
Mapping(items) == [kind |-> "dict", id |-> 0, items |-> items]

ResolveValues ==
    {Scalar} \cup {PeerChannel(i) : i \in Ids} \cup {PeerUser(i) : i \in Ids}
             \cup {Mapping(<<PeerChannel(i)>>) : i \in Ids}

\* the flattened messages: the values of one or two keys, in the order of
\* the mapping
ResolveMessages ==
    {<<v>> : v \in ResolveValues} \cup {<<v, w>> : v, w \in ResolveValues}

\* what the upstream answers to GetFullChannelRequest / GetFullUserRequest
LookupAnswers == {"ok", "ChannelPrivateError", "FloodWaitError"}

\* "except (TypeError, ChannelPrivateError, UsernameInvalidError)"
Caught == {"TypeError", "ChannelPrivateError", "UsernameInvalidError"}

\* one reference: nothing is done for an id of the failures cache, an id of
\* the details cache is answered from it, any other id is requested
\* upstream; the error of a request is caught and the id put in the failures
\* cache, or it leaves resolve_groups
ResolvePeer(i, ans, st) ==
    IF i \in st.failures \/ i \in st.details THEN st
    ELSE LET asked == [st EXCEPT !.lookups[i] = @ + 1]
         IN  IF ans[i] = "ok"
             THEN [asked EXCEPT !.details = @ \cup {i}]
             ELSE IF ans[i] \in Caught
             THEN [asked EXCEPT !.failures = @ \cup {i}]
             ELSE [asked EXCEPT !.raised = ans[i]]

\* "for key, value in message.items()", with the recursion into mappings
RECURSIVE ResolveItems(_, _, _)
ResolveItems(items, ans, st) ==
    IF items = <<>> \/ st.raised # "none" THEN st
    ELSE LET value == Head(items)
             after == IF value.kind = "scalar" THEN st
                      ELSE IF value.kind \in {"PeerChannel", "PeerUser"}
                      THEN ResolvePeer(value.id, ans, st)
                      ELSE ResolveItems(value.items, ans, st)
         IN  ResolveItems(Tail(items), ans, after)

\* "if resolve_refs: serialized_message = await self.resolve_groups(client,
\* serialized_message)" for an item of the iteration; a FloodWaitError that
\* leaves resolve_groups is handled by gather_posts, which waits and starts
\* the iteration of the entity again
ResolveGroups(message, ans) ==
    /\ pc = "iter"
    /\ resolve_refs
    /\ LET st == ResolveItems(message, ans,
                              [details |-> details_cache,
                               failures |-> failures_cache,
                               lookups |-> lookups, raised |-> "none"])
       IN  /\ \A i \in Ids : st.lookups[i] <= MaxLookups
           /\ details_cache' = st.details
           /\ failures_cache' = st.failures
           /\ lookups' = st.lookups
           /\ IF st.raised = "none"
              THEN UNCHANGED <<pc, outcome>>
              ELSE /\ pc' = "fetch"
                   /\ outcome' = [outcome EXCEPT ![processed] = <<"rate_limited", 60>>]
    /\ UNCHANGED <<parameters, client, session, progress, error_budget,
                   validation, codes, artifact, drive, application, upstream,
                   now, dataset, queries, processed, query, min_id, retries,
                   delay, reply_channel_added, entity_posts, iterpos,
                   no_additional_queries, flawless, posts, interrupted,
                   contvars, last_batch, returned, error_status, errors,
                   restarts>>

\* ---- save_files and update_latest_markers -------------------------------
InitialPath == 0

\* the name of the segment: the initial file, or the result file's stem
\* followed by the wall clock in seconds (time.strftime("%Y%m%d_%H%M%S"))
SubfilePath(initial_file) == IF initial_file THEN InitialPath ELSE now

\* items_to_ndjson(items, path): the file at the path holds the items
WriteSegment(fs, path, items) ==
    [p \in DOMAIN fs \cup {path} |-> IF p = path THEN items ELSE fs[p]]

\* add_subfile_record(subfile_name, type): the Subfile of the dataset with
\* this path is looked up and inserted when there is none
AddSubfileRecord(reg, path) == reg \cup {path}

\* ---- the table subfiles (common/lib/subfile.py) ------------------------------
DatasetKey == 1             \* the key of the dataset of the collection
OtherKey == 2               \* the key of another dataset

Row(key, path, type, saved) ==
    [key |-> key, file_path |-> path, file_type |-> type, saved_date |-> saved,
     uploaded_date |-> None, owner |-> "anonymous"]

\* "SELECT * FROM subfiles WHERE key = %s AND file_path = %s"
Current(tbl, key, path) ==
    {i \in DOMAIN tbl : tbl[i].key = key /\ tbl[i].file_path = path}

\* the constructor inserts without looking the row up
SubfileInitAlwaysInserts(tbl, key, path, type, saved) ==
    Append(tbl, Row(key, path, type, saved))

\* Subfile.__init__: the table after the constructor, which inserts a row
\* when the select has found none
SubfileInit(tbl, key, path, type, saved) ==
    IF Current(tbl, key, path) # {}
    THEN tbl
    ELSE Append(tbl, Row(key, path, type, saved))

\* Subfile.__init__: the fields of the object, those of the stored row when
\* there is one
SubfileObject(tbl, key, path, type, saved) ==
    IF Current(tbl, key, path) # {}
    THEN [row |-> tbl[CHOOSE i \in Current(tbl, key, path) : TRUE], is_new |-> FALSE]
    ELSE [row |-> Row(key, path, type, saved), is_new |-> TRUE]

NoRecord == [row |-> Row(None, None, None, None), is_new |-> TRUE]

\* Subfile.change_uploaded_date: the update of the rows with the key and the
\* path of the object
ChangeUploadedDate(tbl, key, path, date) ==
    [i \in DOMAIN tbl |->
        IF tbl[i].key = key /\ tbl[i].file_path = path
        THEN [tbl[i] EXCEPT !.uploaded_date = date]
        ELSE tbl[i]]

\* the date is set whether or not the upload has returned
SaveToGoogleDriveAlwaysDated(tbl, path, uploaded) ==
    ChangeUploadedDate(tbl, DatasetKey, path, now)

\* save_to_google_drive: the uploaded date of the record is changed when
\* create(...).execute() has returned; an exception is reported and dropped
SaveToGoogleDrive(tbl, path, uploaded) ==
    IF uploaded THEN ChangeUploadedDate(tbl, DatasetKey, path, now) ELSE tbl

\* every suffix is taken for a known one
SupportedAny(sfx) == TRUE

\* the suffixes save_files has a branch for
Supported(sfx) == sfx \in {"ndjson", "csv"}

Suffixes == {"ndjson", "csv", "zip"}

\* the outcomes of the upload of a segment: there is none without a client
UploadOutcomes == IF save_to_gdrive THEN BOOLEAN ELSE {FALSE}

\* the id of the first record of the channel in the list
FirstIdOf(recs, c) ==
    recs[CHOOSE k \in DOMAIN recs :
            /\ recs[k].chan = c
            /\ \A j \in 1..(k - 1) : recs[j].chan # c].id

\* update_latest_markers(continuous_posts), the list already reversed: the
\* markers after the call. A record without channel_id raises the KeyError
\* that is caught and leaves the markers as they were.
UpdateLatestMarkers(reversed) ==
    IF \E k \in DOMAIN reversed : reversed[k].chan = NoChan
    THEN markers
    ELSE LET channels == {reversed[k].chan : k \in DOMAIN reversed}
             keys == {utils_get_peer_id(c) : c \in channels}
         IN  [key \in DOMAIN markers \cup keys |->
                 IF key \in keys
                 THEN FirstIdOf(reversed, CHOOSE c \in channels : utils_get_peer_id(c) = key)
                 ELSE markers[key]]

\* save_files raises NotImplementedError for these items
SaveFilesFails(items) == items # <<>> /\ ~Supported(suffix)

\* save_files(items, gdrive_client, initial_file) for a known suffix: a
\* non-empty list is written to its segment, the segment is registered and,
\* with a drive client, uploaded; then the markers are updated
SaveFiles(items, initial_file, uploaded) ==
    LET path == SubfilePath(initial_file)
        registered == SubfileInit(rows, DatasetKey, path, suffix, now)
    IN  /\ files' = IF items # <<>>
                    THEN WriteSegment(files, path, items)
                    ELSE files
        /\ subfiles' = IF items # <<>>
                       THEN AddSubfileRecord(subfiles, path)
                       ELSE subfiles
        /\ rows' = IF items = <<>> THEN rows
                   ELSE IF save_to_gdrive
                   THEN SaveToGoogleDrive(registered, path, uploaded)
                   ELSE registered
        /\ record' = IF items # <<>>
                     THEN SubfileObject(rows, DatasetKey, path, suffix, now)
                     ELSE record
        /\ last_upload' = IF items # <<>> /\ save_to_gdrive
                          THEN (IF uploaded THEN "ok" ELSE "failed")
                          ELSE "none"
        /\ markers' = UpdateLatestMarkers(Reverse(items))
        /\ last_batch' = items

\* what a save_files call that is not made, or that fails, leaves alone
saved == <<files, subfiles, rows, record, last_upload, markers, last_batch>>

\* ---- execute_queries after the backfill ----------------------------------
\* posts.reverse(), save_files(posts, initial_file), then either the end of
\* the run or mark_continuous() and the call of continuous_collection.
\* update_latest_markers reverses the list it is given in place, so posts is
\* back in the order of the generator when save_files returns.
SaveBackfill ==
    /\ pc = "save"
    /\ IF SaveFilesFails(Reverse(posts))
       THEN \* the catch-all of execute_queries reports the error
            /\ pc' = "done"
            /\ returned' = <<>>
            /\ error_status' = TRUE
            /\ posts' = Reverse(posts)
            /\ UNCHANGED <<saved, continuous>>
       ELSE /\ \E uploaded \in UploadOutcomes :
                   SaveFiles(Reverse(posts), DOMAIN markers = {}, uploaded)
            /\ IF continue_collection
               THEN continuous' = TRUE /\ pc' = "validate" /\ UNCHANGED returned
               ELSE UNCHANGED continuous /\ pc' = "done" /\ returned' = posts
            /\ UNCHANGED <<posts, error_status>>
    /\ Finally
    /\ UNCHANGED <<parameters, jobvars, upstream, now, archive, suffix, uploads,
                   loopvars, flawless, interrupted, contvars, errors,
                   restarts>>

\* ---- continuous_collection ------------------------------------------------
Vanished == {{}, {1}, Chats}

\* flawless is left as it is when an entity does not resolve
FlawlessAfterValidationKept(poll) == flawless

\* every entity that does not resolve sets flawless to False
FlawlessAfterValidation(poll) == flawless /\ Len(poll) = Len(queries)

\* the check that the entities exist: get_entity fails for the chats in lost.
\* With nothing to poll the method returns None, and len(None) in
\* execute_queries raises the TypeError its catch-all turns into the end of
\* the run.
ValidateEntities(lost) ==
    /\ pc = "validate"
    /\ LET ok(ref) == ChatOf(ref) \notin lost
           poll == SelectSeq(queries, ok)
       IN  /\ queries_to_poll' = poll
           /\ flawless' = FlawlessAfterValidation(poll)
           /\ IF poll = <<>>
              THEN /\ pc' = "done"
                   /\ returned' = <<>>
                   /\ error_status' = TRUE
              ELSE /\ pc' = "listen"
                   /\ UNCHANGED <<returned, error_status>>
    /\ Finally
    /\ UNCHANGED <<parameters, jobvars, upstream, now, dataset, loopvars, posts,
                   interrupted, continuous_posts, final_file_posts,
                   last_batch, errors, restarts>>

Polled == {ChatOf(queries_to_poll[k]) : k \in DOMAIN queries_to_poll}

\* a new message is posted in a polled chat: new_message_handler
NewMessageHandler(e) ==
    /\ pc = "listen"
    /\ e \in Polled
    /\ Cardinality(Posted) < MaxPosted
    /\ LET m == NewMessage(e, now, FALSE, None)
       IN  /\ upstream' = [upstream EXCEPT ![e] = Append(@, m)]
           /\ continuous_posts' = Append(continuous_posts, Serialize(m, 0))
    /\ UNCHANGED <<parameters, client, jobvars, now, dataset, pc, loopvars, flawless, posts,
                   interrupted, queries_to_poll, final_file_posts,
                   last_batch,
                   returned, error_status, errors, restarts>>

\* the forward counter of message id of a polled channel changed:
\* forward_message_handler fetches the message and adds it
ForwardMessageHandler(e, id) ==
    /\ pc = "listen"
    /\ e \in Polled
    /\ IsChannel(e)
    /\ id \in DOMAIN upstream[e]
    /\ Len(final_file_posts) + Len(continuous_posts) < MaxHandled
    /\ continuous_posts' = Append(continuous_posts, Serialize(upstream[e][id], 0))
    /\ UNCHANGED <<parameters, client, jobvars, upstream, now, dataset, pc, loopvars, flawless,
                   posts, interrupted, queries_to_poll, final_file_posts,
                   last_batch,
                   returned, error_status, errors, restarts>>

FlushDue == \/ Len(continuous_posts) >= max_items
            \/ (now = EndOfDay /\ Len(continuous_posts) > 0)

\* get_subfile_paths(): the paths of the registered subfile records
GetSubfilePaths(reg) == reg

\* the zip file is written before the flush of the turn is registered
SaveToZipFileStale == archive' = Append(archive, GetSubfilePaths(subfiles))

\* save_to_zip_file(): a zip file is opened for writing at the result path
\* followed by ".zip" and every path of get_subfile_paths() is added to it
SaveToZipFile == archive' = Append(archive, GetSubfilePaths(subfiles'))

\* the comparison with max_date, off by one second
PastMaxDateInclusive == max_date # None /\ now >= max_date

\* "if max_date and datetime.now() > max_date"
PastMaxDate == max_date # None /\ now > max_date

\* any interruption is taken for the request to stop
StopRequestedAny == interrupted # "none"

\* "if self.interrupted == self.INTERRUPT_STOP"
StopRequested == interrupted = "stop"

\* what execute_queries returns when continuous_collection has returned the
\* list fin
ReturnedAfter(fin) == IF Len(fin) > 0 THEN fin ELSE posts

\* the save_files call of this turn raises NotImplementedError
TickFlushFails ==
    /\ ~Supported(suffix)
    /\ FlushDue \/ (StopRequested /\ continuous_posts # <<>>)

\* one turn of the "while True" loop of continuous_collection
Tick ==
    /\ pc = "listen"
    /\ LET flush == FlushDue
           \* the accumulator and the markers after the flush of this turn
           acc1 == IF flush THEN <<>> ELSE continuous_posts
           fin1 == IF flush THEN final_file_posts \o Reverse(continuous_posts)
                   ELSE final_file_posts
       IN  IF TickFlushFails
           THEN \* the error leaves continuous_collection and is reported by
                \* the catch-all of execute_queries
                /\ pc' = "done"
                /\ returned' = <<>>
                /\ error_status' = TRUE
                /\ UNCHANGED <<saved, contvars, interrupted, archive>>
           ELSE IF StopRequested
           THEN \* a flush above has emptied the list, so at most one of the
                \* two save_files calls of a turn writes
                /\ IF flush \/ continuous_posts # <<>>
                   THEN \E uploaded \in UploadOutcomes :
                            SaveFiles(continuous_posts, FALSE, uploaded)
                   ELSE UNCHANGED saved
                /\ SaveToZipFile
                /\ continuous_posts' = IF flush THEN <<>> ELSE Reverse(continuous_posts)
                /\ final_file_posts' = final_file_posts \o Reverse(continuous_posts)
                /\ interrupted' = "none"
                /\ pc' = "done"
                /\ returned' = ReturnedAfter(final_file_posts \o Reverse(continuous_posts))
                /\ UNCHANGED <<queries_to_poll, error_status>>
           ELSE /\ IF flush
                   THEN \E uploaded \in UploadOutcomes :
                            SaveFiles(continuous_posts, FALSE, uploaded)
                   ELSE UNCHANGED saved
                /\ continuous_posts' = acc1
                /\ final_file_posts' = fin1
                /\ UNCHANGED <<interrupted, archive, queries_to_poll, error_status>>
                /\ IF PastMaxDate
                   THEN pc' = "done" /\ returned' = ReturnedAfter(fin1)
                   ELSE IF interrupted # "none"
                   THEN pc' = "raised" /\ UNCHANGED returned
                   ELSE pc' = "listen" /\ UNCHANGED returned
    /\ Finally
    /\ UNCHANGED <<parameters, jobvars, upstream, now, continuous, suffix,
                   uploads, loopvars, flawless, posts, errors, restarts>>

\* except FloodWaitError in the loop of continuous_collection
ListenRateLimited(seconds) ==
    /\ pc = "listen"
    /\ errors < error_budget
    /\ errors' = errors + 1
    /\ IF BelowCeiling(seconds)
       THEN UNCHANGED <<pc, flawless, returned>>
       ELSE /\ flawless' = FALSE
            /\ pc' = "done"
            /\ returned' = ReturnedAfter(final_file_posts)
    /\ Finally
    /\ UNCHANGED <<parameters, jobvars, upstream, now, dataset, loopvars, posts,
                   interrupted, contvars, last_batch, error_status, restarts>>

\* except TimeoutError in the loop of continuous_collection: the wait doubles
\* and the loop goes on (delay is the local variable of continuous_collection,
\* 10 when the method starts)
ListenTimedOut ==
    /\ pc = "listen"
    /\ errors < error_budget
    /\ errors' = errors + 1
    /\ delay' = delay * 2
    /\ UNCHANGED <<parameters, client, jobvars, upstream, now, dataset, pc, queries, processed,
                   query, min_id, retries, reply_channel_added, entity_posts,
                   iterpos, no_additional_queries, outcome, flawless, posts,
                   interrupted, contvars, last_batch, returned, error_status,
                   restarts>>

\* a second passes
ClockTick ==
    /\ pc \in {"listen", "down"}
    /\ now < MaxNow
    /\ now' = now + 1
    /\ UNCHANGED <<parameters, client, jobvars, upstream, dataset, pc, loopvars, flawless,
                   posts, interrupted, contvars, last_batch,
                   returned, error_status, errors, restarts>>

\* ---- the upload processor (processors/visualisation/upload_to_gdrive.py) ------
ResultPath == 0 - 1         \* the name of the result file of the dataset

\* the names the processor is asked to upload a file under
UploadNames == {InitialPath, EndOfDay, ResultPath}

\* UploadToGDrive.process: the file is uploaded under the name; when the
\* upload has returned the Subfile of the parent dataset with that name is
\* constructed and its uploaded date is changed. Any exception ends the
\* processor before the record is constructed.
UploadProcessor(name, uploaded) ==
    /\ pc # "connect"
    /\ uploads < MaxUploads
    /\ uploads' = uploads + 1
    /\ IF uploaded
       THEN /\ rows' = ChangeUploadedDate(SubfileInit(rows, DatasetKey, name, None, None),
                                          DatasetKey, name, now)
            /\ record' = SubfileObject(rows, DatasetKey, name, None, None)
       ELSE UNCHANGED <<rows, record>>
    /\ UNCHANGED <<parameters, client, jobvars, upstream, now, markers, continuous,
                   files, subfiles, archive, suffix, last_upload, pc,
                   loopvars, flawless, posts, interrupted, contvars,
                   last_batch, returned, error_status, errors, restarts>>

\* ---- crash and restart ------------------------------------------------------
\* the worker dies; what the dataset and the result folder hold stays. When
\* the crash falls inside save_files (midsave), the segment has been written
\* and the markers have not been updated.
Crash(midsave) ==
    /\ pc \in {"save", "listen"}
    /\ restarts < MaxRestarts
    /\ IF midsave
       THEN /\ \/ pc = "save" /\ posts # <<>>
               \/ pc = "listen" /\ FlushDue
            /\ files' = IF pc = "save"
                        THEN WriteSegment(files, SubfilePath(DOMAIN markers = {}), Reverse(posts))
                        ELSE WriteSegment(files, SubfilePath(FALSE), continuous_posts)
       ELSE UNCHANGED files
    /\ StartRun
    /\ pc' = "down"
    /\ restarts' = restarts + 1
    /\ UNCHANGED <<parameters, client, jobvars, upstream, now, markers, continuous,
                   subfiles, archive, suffix, registry, errors>>

\* a message is posted while the collector is down
UpstreamPost(e) ==
    /\ pc = "down"
    /\ e \in {ChatOf(parameters.query[k]) : k \in DOMAIN parameters.query}
    /\ Cardinality(Posted) < MaxPosted
    /\ upstream' = [upstream EXCEPT ![e] = Append(@, NewMessage(e, now, FALSE, None))]
    /\ UNCHANGED <<parameters, client, jobvars, now, dataset, pc, loopvars, flawless, posts,
                   interrupted, contvars, last_batch,
                   returned, error_status, errors, restarts>>

\* the job is run again
Restart ==
    /\ pc = "down"
    /\ pc' = "connect"
    /\ connection' = "no"
    /\ details_cache' = {}
    /\ failures_cache' = {}
    /\ lookups' = NoLookups
    /\ UNCHANGED <<parameters, client, session_file, credentials, progress,
                   error_budget, validation, codes, artifact, drive,
                   application, upstream, now, dataset, loopvars,
                   flawless,
                   posts, interrupted, contvars, last_batch,
                   returned, error_status, errors, restarts>>

\* ---- get_items after execute_queries -------------------------------------------
\* "if not query.get("save-session")": the three parameters are deleted
CredentialsAfter == credentials /\ parameters.save_session

\* execute_queries has returned its list: get_items deletes the credentials
\* unless the session is to be saved, and returns the list
GetItemsReturn ==
    /\ pc = "done"
    /\ pc' = "returned"
    /\ credentials' = CredentialsAfter
    /\ UNCHANGED <<parameters, client, connection, session_file, progress,
                   error_budget, validation, codes, artifact, drive,
                   resolution, application, upstream, now, dataset, loopvars, flawless,
                   posts, interrupted, contvars, last_batch, returned,
                   error_status, errors, restarts>>

\* ---- initial states ---------------------------------------------------------
\* the first n messages of chat e; the ids in acts are service messages, link
\* is the linked discussion channel the messages name
History(e, n, acts, link) ==
    [k \in 1..n |-> [chan |-> IF IsChannel(e) THEN e ELSE NoChan, id |-> k,
                     date |-> k, action |-> (k \in acts), replies |-> link]]

Worlds ==
    {[e \in Chats |-> IF e = 1 THEN History(1, n, acts, link)
                      ELSE History(e, 1, {}, None)] :
        n \in {1, 2}, acts \in {{}, {1}}, link \in {None, 2}}

FreshDataset ==
    /\ markers = EmptyMap
    /\ continuous = FALSE
    /\ files = EmptyMap
    /\ subfiles = {}
    /\ archive = <<>>
    /\ record = NoRecord
    /\ last_upload = "none"
    /\ uploads = 0

\* the job as the queue hands it to the worker: validate_query has left the
\* session file and the credentials
\* the form that made the job, and a validate_query call that has found its
\* session signed in
Validated ==
    /\ form = [has_query |-> TRUE, has_credentials |-> TRUE, too_many |-> FALSE,
               logged_in |-> TRUE, numeric_id |-> TRUE, code |-> "right"]
    /\ answer = "ok"
    /\ signed_in = TRUE
    /\ code_requests = 1
    /\ sign_ins = 1
    /\ vq = "parameters"
    /\ calls = 1

\* no job of the user is running: the job has no session code
NoCodes ==
    /\ tg_codes = <<>>
    /\ temp_session_code = NoCode
    /\ session_code = NoCode
    /\ authenticated = SessionName(NoCode)

\* get_items has emptied the caches; no client is made yet
FreshCaches ==
    /\ client = "none"
    /\ opened = NoSession
    /\ details_cache = {}
    /\ failures_cache = {}
    /\ lookups = NoLookups
    /\ arg = Unset
    /\ result = Unset

FreshJob ==
    /\ NoCodes
    /\ FreshCaches
    /\ progress = UpdateProgress(0, 1)
    /\ connection = "no"
    /\ session_file = TRUE
    /\ credentials = TRUE
    /\ error_budget = MaxErrors
    /\ Validated

\* the memory of a worker that has not started
FreshMemory ==
    /\ queries = parameters.query
    /\ processed = 0
    /\ query = IdRef(0)
    /\ min_id = 0
    /\ retries = 0
    /\ delay = InitialDelay
    /\ reply_channel_added = FALSE
    /\ entity_posts = 0
    /\ iterpos = 0
    /\ no_additional_queries = FALSE
    /\ outcome = <<>>
    /\ flawless = TRUE
    /\ posts = <<>>
    /\ interrupted = "none"
    /\ queries_to_poll = <<>>
    /\ continuous_posts = <<>>
    /\ final_file_posts = <<>>
    /\ last_batch = <<>>
    /\ returned = <<>>
    /\ error_status = FALSE
    /\ errors = 0
    /\ restarts = 0

FreshRun ==
    /\ pc = "connect"
    /\ FreshMemory

\* one-shot collections
InitBackfill ==
    /\ parameters \in [query : {<<NameRef(1)>>, <<NameRef(1), NameRef(2)>>,
                                <<NameRef(1), IdRef(2)>>},
                       save_session : BOOLEAN,
                       save_to_gdrive : {FALSE},
                       items : {1, 2},
                       min_date : {None, 2},
                       max_date : {None, EndOfDay},
                       include_actions : BOOLEAN,
                       retrieve_replies : BOOLEAN,
                       resolve_entities : {FALSE},
                       continue_collection : {FALSE}]
    /\ upstream \in {w \in Worlds : Len(w[1]) = 2}
    /\ now = StartOfTime
    /\ FreshDataset
    /\ suffix = "ndjson"
    /\ rows = <<>>
    /\ drive = TRUE
    /\ FreshJob
    /\ FreshRun

\* continuous collections
Init ==
    /\ parameters \in [query : {<<NameRef(1)>>, <<IdRef(1)>>, <<NameRef(3)>>},
                       save_session : {FALSE},
                       save_to_gdrive : {FALSE},
                       items : {1, 2},
                       min_date : {None},
                       max_date : {None, EndOfDay},
                       include_actions : {TRUE},
                       retrieve_replies : {FALSE},
                       resolve_entities : {FALSE},
                       continue_collection : {TRUE}]
    /\ upstream \in {w \in Worlds : /\ Len(w[1]) = 1
                                     /\ ~w[1][1].action
                                     /\ w[1][1].replies = 2}
    /\ now = StartOfTime
    /\ FreshDataset
    /\ suffix = "ndjson"
    /\ rows = <<>>
    /\ drive = TRUE
    /\ FreshJob
    /\ FreshRun

\* a user in front of the form of a new dataset; the session may have been
\* signed in by an earlier dataset of the user
InitValidate ==
    /\ parameters = [query |-> <<NameRef(1)>>,
                     save_session |-> FALSE,
                     save_to_gdrive |-> FALSE,
                     items |-> 1,
                     min_date |-> None,
                     max_date |-> None,
                     include_actions |-> TRUE,
                     retrieve_replies |-> FALSE,
                     resolve_entities |-> FALSE,
                     continue_collection |-> FALSE]
    /\ upstream \in {w \in Worlds : /\ Len(w[1]) = 1
                                     /\ ~w[1][1].action
                                     /\ w[1][1].replies = None}
    /\ now = StartOfTime
    /\ FreshDataset
    /\ suffix = "ndjson"
    /\ rows = <<>>
    /\ progress = UpdateProgress(0, 1)
    /\ connection = "no"
    /\ signed_in \in BOOLEAN
    /\ session_file = signed_in
    /\ credentials = FALSE
    /\ error_budget = MaxErrors
    /\ form = EmptyForm
    /\ answer = "none"
    /\ code_requests = 0
    /\ sign_ins = 0
    /\ vq = "none"
    /\ calls = 0
    /\ drive = TRUE
    /\ tg_codes \in Pools
    /\ temp_session_code = NoCode
    /\ session_code = NoCode
    /\ authenticated = NoSession
    /\ FreshCaches
    /\ FreshMemory
    /\ pc = "form"

\* one continuous collection in which the upstream goes on raising errors
InitTimeouts ==
    /\ parameters = [query |-> <<NameRef(1)>>,
                     save_session |-> FALSE,
                     save_to_gdrive |-> FALSE,
                     items |-> 2,
                     min_date |-> None,
                     max_date |-> None,
                     include_actions |-> TRUE,
                     retrieve_replies |-> FALSE,
                     resolve_entities |-> FALSE,
                     continue_collection |-> TRUE]
    /\ upstream \in {w \in Worlds : /\ Len(w[1]) = 1
                                     /\ ~w[1][1].action
                                     /\ w[1][1].replies = 2}
    /\ now = StartOfTime
    /\ FreshDataset
    /\ suffix = "ndjson"
    /\ rows = <<>>
    /\ progress = UpdateProgress(0, 1)
    /\ connection = "no"
    /\ session_file = TRUE
    /\ credentials = TRUE
    /\ error_budget = MaxListenTimeouts
    /\ drive = TRUE
    /\ NoCodes
    /\ FreshCaches
    /\ Validated
    /\ FreshRun

\* a continuous collection of one channel for every suffix of the result
\* file, with and without a drive client; another dataset has registered a
\* segment under the name of the initial file
InitStore ==
    /\ parameters \in [query : {<<NameRef(1)>>},
                       save_session : {FALSE},
                       save_to_gdrive : BOOLEAN,
                       items : {1},
                       min_date : {None},
                       max_date : {None},
                       include_actions : BOOLEAN,
                       retrieve_replies : {FALSE},
                       resolve_entities : {FALSE},
                       continue_collection : {TRUE}]
    /\ upstream \in {w \in Worlds : Len(w[1]) = 1 /\ w[1][1].replies = 2}
    /\ now = StartOfTime
    /\ FreshDataset
    /\ suffix \in Suffixes
    /\ rows = <<Row(OtherKey, InitialPath, "ndjson", StartOfTime)>>
    /\ drive = TRUE
    /\ FreshJob
    /\ FreshRun

\* chat 1 holds three messages, one of which may be a service message; the
\* message of the discussion channel 2 may itself name a linked channel
QuietWorlds ==
    {[e \in Chats |-> IF e = 1 THEN History(1, 3, acts, link)
                      ELSE IF e = 2 THEN History(2, 1, {}, link2)
                      ELSE History(e, 1, {}, None)] :
        acts \in {{}, {2}, {3}}, link \in {None, 2}, link2 \in {None, 1, 2, 3}}

\* one-shot collections of channels with service messages and linked
\* discussion channels
InitQuiet ==
    /\ parameters \in [query : {<<NameRef(1)>>, <<NameRef(1), NameRef(2)>>},
                       save_session : {FALSE},
                       save_to_gdrive : {FALSE},
                       items : {1, 2},
                       min_date : {None, 2},
                       max_date : {None},
                       include_actions : BOOLEAN,
                       retrieve_replies : BOOLEAN,
                       resolve_entities : {FALSE},
                       continue_collection : {FALSE}]
    /\ upstream \in QuietWorlds
    /\ now = StartOfTime
    /\ FreshDataset
    /\ suffix = "ndjson"
    /\ rows = <<>>
    /\ drive = TRUE
    /\ FreshJob
    /\ FreshRun

\* one-shot collections with and without the upload to the drive, of owners
\* with and without drive credentials
InitClient ==
    /\ parameters \in [query : {<<NameRef(1)>>},
                       save_session : {FALSE},
                       save_to_gdrive : BOOLEAN,
                       items : {1, 2},
                       min_date : {None},
                       max_date : {None},
                       include_actions : {TRUE},
                       retrieve_replies : {FALSE},
                       resolve_entities : {FALSE},
                       continue_collection : {FALSE}]
    /\ upstream \in {w \in Worlds : Len(w[1]) = 2}
    /\ now = StartOfTime
    /\ FreshDataset
    /\ suffix \in Suffixes
    /\ rows = <<>>
    /\ drive \in BOOLEAN
    /\ FreshJob
    /\ FreshRun

\* a one-shot collection of one channel with resolve-entities on
InitResolve ==
    /\ parameters = [query |-> <<NameRef(1)>>,
                     save_session |-> FALSE,
                     save_to_gdrive |-> FALSE,
                     items |-> 2,
                     min_date |-> None,
                     max_date |-> None,
                     include_actions |-> TRUE,
                     retrieve_replies |-> FALSE,
                     resolve_entities |-> TRUE,
                     continue_collection |-> FALSE]
    /\ upstream \in {w \in Worlds : Len(w[1]) = 2 /\ w[1][1].replies = None}
    /\ now = StartOfTime
    /\ FreshDataset
    /\ suffix = "ndjson"
    /\ rows = <<>>
    /\ drive = TRUE
    /\ FreshJob
    /\ FreshRun

\* a worker that is about to flatten a message
InitSerialize ==
    /\ parameters = [query |-> <<NameRef(1)>>,
                     save_session |-> FALSE,
                     save_to_gdrive |-> FALSE,
                     items |-> 2,
                     min_date |-> None,
                     max_date |-> None,
                     include_actions |-> TRUE,
                     retrieve_replies |-> FALSE,
                     resolve_entities |-> FALSE,
                     continue_collection |-> FALSE]
    /\ upstream \in {w \in Worlds : /\ Len(w[1]) = 1
                                     /\ ~w[1][1].action
                                     /\ w[1][1].replies = None}
    /\ now = StartOfTime
    /\ FreshDataset
    /\ suffix = "ndjson"
    /\ rows = <<>>
    /\ drive = TRUE
    /\ NoCodes
    /\ client = "none"
    /\ opened = NoSession
    /\ details_cache = {}
    /\ failures_cache = {}
    /\ lookups = NoLookups
    /\ arg \in SerializeInputs
    /\ result = Unset
    /\ progress = UpdateProgress(0, 1)
    /\ connection = "no"
    /\ session_file = TRUE
    /\ credentials = TRUE
    /\ error_budget = MaxErrors
    /\ Validated
    /\ FreshRun

\* a message that gather_posts has yielded, not yet mapped
InitMapItem ==
    /\ parameters = [query |-> <<NameRef(1)>>,
                     save_session |-> FALSE,
                     save_to_gdrive |-> FALSE,
                     items |-> 2,
                     min_date |-> None,
                     max_date |-> None,
                     include_actions |-> TRUE,
                     retrieve_replies |-> FALSE,
                     resolve_entities |-> FALSE,
                     continue_collection |-> FALSE]
    /\ upstream \in {w \in Worlds : /\ Len(w[1]) = 1
                                     /\ ~w[1][1].action
                                     /\ w[1][1].replies = None}
    /\ now = StartOfTime
    /\ FreshDataset
    /\ suffix = "ndjson"
    /\ rows = <<>>
    /\ drive = TRUE
    /\ NoCodes
    /\ client = "none"
    /\ opened = NoSession
    /\ details_cache = {}
    /\ failures_cache = {}
    /\ lookups = NoLookups
    /\ arg \in MapInputs
    /\ result = Unset
    /\ progress = UpdateProgress(0, 1)
    /\ connection = "no"
    /\ session_file = TRUE
    /\ credentials = TRUE
    /\ error_budget = MaxErrors
    /\ Validated
    /\ FreshRun

Backfill ==
    \/ \E res \in ConnectResults : Connect(res)
    \/ NextQuery
    \/ StartFetch
    \/ IterNext
    \/ \E err \in SkipErrors : SkipEntity(err)
    \/ \E seconds \in FloodWaits : RateLimited(seconds)
    \/ TimedOut
    \/ \E kind \in {"stop", "cancel"} : Interrupt(kind)
    \/ SaveBackfill
    \/ GetItemsReturn

NextBackfill == Backfill

\* a continuous collection whose worker stays up
NextListen ==
    \/ Backfill
    \/ \E lost \in Vanished : ValidateEntities(lost)
    \/ \E e \in Chats : NewMessageHandler(e)
    \/ \E e \in Chats : \E id \in DOMAIN upstream[e] : ForwardMessageHandler(e, id)
    \/ Tick
    \/ \E seconds \in FloodWaits : ListenRateLimited(seconds)
    \/ ListenTimedOut
    \/ ClockTick

\* a one-shot collection whose upstream answers every request
NextQuiet ==
    \/ \E res \in ConnectResults : Connect(res)
    \/ NextQuery
    \/ StartFetch
    \/ IterNext
    \/ SaveBackfill
    \/ GetItemsReturn

\* a continuous collection whose upstream raises no error and sends no
\* forward notice, and the upload processor
NextStore ==
    \/ \E res \in ConnectResults : Connect(res)
    \/ NextQuery
    \/ StartFetch
    \/ IterNext
    \/ \E kind \in {"stop", "cancel"} : Interrupt(kind)
    \/ SaveBackfill
    \/ GetItemsReturn
    \/ \E lost \in Vanished : ValidateEntities(lost)
    \/ \E e \in Chats : NewMessageHandler(e)
    \/ Tick
    \/ ClockTick
    \/ \E name \in UploadNames : \E uploaded \in BOOLEAN : UploadProcessor(name, uploaded)

\* a continuous collection whose worker may crash and be started again
Next ==
    \/ NextListen
    \/ \E midsave \in BOOLEAN : Crash(midsave)
    \/ \E e \in Chats : UpstreamPost(e)
    \/ Restart

SpecBackfill == InitBackfill /\ [][NextBackfill]_vars

SpecListen == Init /\ [][NextListen]_vars

\* the form is submitted, and submitted again
NextValidate ==
    \E f \in Forms : \E ans \in Answers :
        \E jobs \in JobCounts : \E fresh \in FreshCodes :
            ValidateQuery(f, ans, jobs, fresh)

SpecValidate == InitValidate /\ [][NextValidate]_vars

SpecStore == InitStore /\ [][NextStore]_vars

SpecTimeouts == InitTimeouts /\ [][NextListen]_vars

SpecQuiet == InitQuiet /\ [][NextQuiet]_vars

\* the form is submitted until it is accepted, and the job is started
NextSession ==
    \/ NextValidate
    \/ \E res \in ConnectResults : Connect(res)

SpecSession == InitValidate /\ [][NextSession]_vars

SpecClient == InitClient /\ [][NextBackfill]_vars

\* the message is flattened, and what was returned is flattened again
NextSerialize == \E x \in {arg, result} : SerializeObj(x)

SpecSerialize == InitSerialize /\ [][NextSerialize]_vars

NextMapItem == MapItem(arg)

SpecMapItem == InitMapItem /\ [][NextMapItem]_vars

\* a one-shot collection that resolves the references of its messages
NextResolve ==
    \/ NextQuiet
    \/ \E message \in ResolveMessages : \E ans \in [Ids -> LookupAnswers] :
           ResolveGroups(message, ans)

SpecResolve == InitResolve /\ [][NextResolve]_vars

Spec == Init /\ [][Next]_vars

\* ==== the claims ==============================================================

IterResult == IterMessages(ChatOf(query), max_date, min_id)

YieldedBy(i) == {k \in DOMAIN posts : posts[k].q = i}

\* C1: once the upstream has answered a fetch of the entity loop with a rate
\* limit of at least end_if_rate_limited seconds, flawless is false, the loop
\* is not fetching and every later entry of the work list was passed over
\* without a fetch.
C1_RateLimitAbortStopsFetching ==
    \A i \in DOMAIN outcome :
        (outcome[i][1] = "rate_limited" /\ outcome[i][2] >= end_if_rate_limited)
        => /\ ~flawless
           /\ pc \notin {"fetch", "iter"}
           /\ \A j \in DOMAIN outcome : j > i => outcome[j] = <<"not_run", 0>>

\* C1 witness: the run has ended after a rate limit beyond the ceiling at the
\* first entry, and a later entry was passed over.
C1_Witness ==
    /\ pc = "done"
    /\ Len(outcome) = 2
    /\ outcome[1][1] = "rate_limited"
    /\ outcome[1][2] >= end_if_rate_limited
    /\ outcome[2] = <<"not_run", 0>>

\* C2 (as claimed): after a rate limit below the ceiling the collection
\* resumes where it stopped, so no record of an entry of the work list is
\* yielded twice.
C2_NoRecordYieldedTwice ==
    \A a, b \in DOMAIN posts :
        (a # b /\ posts[a].q = posts[b].q) => posts[a].id # posts[b].id

\* C3 (as claimed): an entry is given up because of a timeout only after three
\* retries, whose waits of 10, 20 and 40 seconds leave the delay at 80.
C3_TimeoutSkipOnlyAfterRetries ==
    (pc = "for" /\ processed > 0 /\ outcome[processed] = <<"timeout", 0>>)
    => delay = InitialDelay * 8

\* C4 (as claimed): with min_date set, no yielded record is older than
\* min_date and no item is consumed after the first item older than min_date.
C4_StopsAtFirstItemBelowMinDate ==
    min_date # None
    => /\ \A k \in DOMAIN posts : posts[k].date >= min_date
       /\ pc = "iter" => \A k \in 1..iterpos : IterResult[k].date >= min_date

\* C4 (amended): with min_date set, no yielded record is older than min_date,
\* and the only items older than min_date after which the loop goes on
\* consuming are non-message events skipped because include-actions is off.
C4_StopsAtFirstAcceptedItemBelowMinDate ==
    min_date # None
    => /\ \A k \in DOMAIN posts : posts[k].date >= min_date
       /\ pc = "iter" => \A k \in 1..iterpos :
              \/ IterResult[k].date >= min_date
              \/ (~include_actions /\ IterResult[k].action)

\* C4 witness: an entry was left at an item older than min_date after a
\* record of it had been yielded.
C4_Witness ==
    /\ min_date # None
    /\ pc = "for"
    /\ processed > 0
    /\ outcome[processed] = <<"min_date", 0>>
    /\ YieldedBy(processed) # {}

\* C5 (as claimed): no entry of the work list yields more than max_items
\* records over the whole run.
C5_AtMostMaxItemsPerEntity ==
    \A i \in 1..Len(queries) : Cardinality(YieldedBy(i)) <= max_items

\* ---- restart and flush ----------------------------------------------------------
\* the key update_latest_markers stores the marker of a channel under
MarkerKey(c) == utils_get_peer_id(c)

Idents(recs) == {<<recs[k].chan, recs[k].id>> : k \in DOMAIN recs}

IdsOf(recs, c) == {recs[k].id : k \in {j \in DOMAIN recs : recs[j].chan = c}}

Max(S) == CHOOSE x \in S : \A y \in S : y <= x

\* C6 (as claimed): in a restarted continuous collection every fetch request
\* for a channel that has a checkpoint marker carries that marker as its lower
\* bound min_id.
C6_ResumeFetchesAboveMarker ==
    (pc = "iter" /\ continuous /\ DOMAIN markers # {})
    => LET c == ChatOf(query)
       IN  (IsChannel(c) /\ MarkerKey(c) \in DOMAIN markers)
           => min_id = markers[MarkerKey(c)]

\* C7 (as claimed): the segment that the backfill of a restarted collection
\* writes holds no message that another persisted segment holds; the markers
\* read on restart have excluded every message saved before.
C7_NoMessageSavedTwice ==
    [][(pc = "save" /\ pc' = "validate" /\ restarts > 0)
       => \A p \in DOMAIN files' :
            p # SubfilePath(DOMAIN markers = {})
            => Idents(files'[p]) \cap Idents(posts) = {}]_vars

\* C8 (as claimed): when the backfill of a restarted continuous collection has
\* been flushed without an error, every message of a collected channel with an
\* id above the channel's marker at the restart is in a persisted segment.
C8_ResumeSavesAllNewer ==
    [][(pc = "save" /\ pc' = "validate" /\ restarts > 0 /\ flawless)
       => \A i \in DOMAIN queries :
            LET c == ChatOf(queries[i])
            IN  (IsChannel(c) /\ MarkerKey(c) \in DOMAIN markers)
                => \A k \in DOMAIN upstream[c] :
                     upstream[c][k].id > markers[MarkerKey(c)]
                     => \E p \in DOMAIN files' :
                          <<c, upstream[c][k].id>> \in Idents(files'[p])]_vars

\* C9 (as claimed): after a flush of a non-empty batch the marker of every
\* channel with a record in the batch is the id of the channel's last record
\* in the batch, and that is the channel's most recent message in the batch.
C9_MarkerIsMostRecentOfBatch ==
    \A c \in {last_batch[k].chan : k \in DOMAIN last_batch} \ {NoChan} :
        /\ MarkerKey(c) \in DOMAIN markers
        /\ markers[MarkerKey(c)] = FirstIdOf(Reverse(last_batch), c)
        /\ markers[MarkerKey(c)] = Max(IdsOf(last_batch, c))

\* C10 (as claimed): a turn of the continuous loop that finds at least
\* max_items records writes all of them to a segment that did not exist
\* before and leaves the accumulator empty.
C10_TickFlushesToNewSegment ==
    [][(pc = "listen" /\ Len(continuous_posts) >= max_items /\ Tick)
       => /\ SubfilePath(FALSE) \notin DOMAIN files
          /\ SubfilePath(FALSE) \in DOMAIN files'
          /\ files'[SubfilePath(FALSE)] = continuous_posts
          /\ continuous_posts' = <<>>]_vars

\* ---- the end of the continuous loop ------------------------------------------
\* C11: a turn of the continuous loop that finds the stop signal flushes the
\* records that are left to a registered segment, writes the one archive of
\* the run, whose members are exactly the registered segments, the segment of
\* this last flush among them, and leaves the loop.
C11_StopFlushesThenArchives ==
    [][(pc = "listen" /\ interrupted = "stop" /\ Tick)
       => /\ pc' = "done"
          /\ archive = <<>>
          /\ archive' = <<subfiles'>>
          /\ continuous_posts # <<>>
             => /\ SubfilePath(FALSE) \in subfiles'
                /\ files'[SubfilePath(FALSE)] = continuous_posts]_vars

\* C11 witness: the collection was stopped with a record left that no flush
\* was due for; the archive holds the segment of the backfill and the segment
\* of the last flush.
C11_Witness ==
    /\ pc = "done"
    /\ Len(archive) = 1
    /\ Cardinality(archive[1]) >= 2
    /\ continuous_posts # <<>>
    /\ archive[1] = subfiles

\* C12: an archive is written only by a turn of the continuous loop that
\* finds the stop signal; a loop that ends because max_date has passed,
\* because of another interruption or because of a rate limit beyond the
\* ceiling writes none.
C12_ArchiveOnlyOnCleanStop ==
    [][archive' # archive
       => (pc = "listen" /\ interrupted = "stop" /\ pc' = "done")]_vars

\* C12 witness: the continuous loop has ended because max_date has passed,
\* after a flush, and there is no archive.
C12_Witness ==
    /\ pc = "done"
    /\ queries_to_poll # <<>>
    /\ flawless
    /\ max_date # None
    /\ now > max_date
    /\ final_file_posts # <<>>
    /\ archive = <<>>

\* C13: a turn of the continuous loop flushes first when a flush is due; then
\* the stop signal wins over max_date (last flush and archive), max_date wins
\* over another interruption (the loop ends without an error) and another
\* interruption alone raises the interruption error.
C13_TickPriorityOrder ==
    [][(pc = "listen" /\ Tick)
       => LET past == max_date # None /\ now > max_date
          IN  /\ FlushDue => SubfilePath(FALSE) \in subfiles'
              /\ (interrupted = "stop" /\ past)
                 => (pc' = "done" /\ archive' # archive)
              /\ (interrupted = "cancel" /\ past)
                 => (pc' = "done" /\ archive' = archive)
              /\ (interrupted = "cancel" /\ ~past) => pc' = "raised"]_vars

\* C13 witness: the continuous loop has ended through max_date while another
\* interruption was pending.
C13_Witness ==
    /\ pc = "done"
    /\ queries_to_poll # <<>>
    /\ interrupted = "cancel"
    /\ max_date # None
    /\ now > max_date
    /\ archive = <<>>

\* C14 (as claimed): when none of the entities resolves at the start of the
\* continuous collection, the run ends normally: it returns the records of
\* the backfill and reports no error.
C14_NoEntityResolvesEndsNormally ==
    (pc = "done" /\ continue_collection /\ queries_to_poll = <<>>)
    => (returned = posts /\ ~error_status)

\* ---- errors and interruptions of the backfill -----------------------------------
Complete == {"exhausted", "min_date", "max_items"}

\* C15: an entry given up for a private, nonexistent or malformed entity
\* leaves flawless false and is the only one that ends: the entry after it is
\* fetched, the generator takes every entry of the work list, and the records
\* yielded before and after are in the segment the backfill writes.
C15_SkipErrorEndsOnlyThatEntity ==
    \A i \in DOMAIN outcome :
        outcome[i] = <<"skipped", 0>>
        => /\ ~flawless
           /\ (i + 1) \in DOMAIN outcome => outcome[i + 1][1] # "not_run"
           /\ pc \in {"save", "done"} => Len(outcome) = Len(queries)
           /\ (pc = "done" /\ posts # <<>>)
              => /\ InitialPath \in DOMAIN files
                 /\ files[InitialPath] = Reverse(posts)

\* C15 witness: the first entry was given up after it had yielded a record,
\* the second entry was collected and both records are persisted.
C15_Witness ==
    /\ pc = "done"
    /\ Len(outcome) = 2
    /\ outcome[1] = <<"skipped", 0>>
    /\ YieldedBy(1) # {}
    /\ YieldedBy(2) # {}
    /\ InitialPath \in DOMAIN files
    /\ files[InitialPath] = Reverse(posts)

C17_RateLimitAbortNeverListens ==
    (\E i \in DOMAIN outcome :
        outcome[i][1] = "rate_limited" /\ outcome[i][2] >= end_if_rate_limited)
    => pc \notin {"validate", "listen"}

\* C18 (as claimed): the entity loop does not start on another entry of the
\* work list while the interrupt flag is set.
C18_InterruptSeenBeforeNextEntity ==
    [][(pc = "for" /\ pc' = "fetch") => interrupted = "none"]_vars

\* C19: an item retrieved while the interrupt flag is set raises the
\* interruption error, and a backfill that ends with that error has written
\* no segment, registered no subfile, changed no marker and returned nothing.
C19_InterruptedBackfillWritesNothing ==
    [][/\ (pc = "iter" /\ interrupted # "none" /\ iterpos' > iterpos)
          => pc' = "raised"
       /\ pc' = "raised"
          => /\ files' = EmptyMap
             /\ subfiles' = {}
             /\ markers' = EmptyMap
             /\ returned' = <<>>]_vars

\* C19 witness: the backfill was interrupted after it had yielded a record.
C19_Witness ==
    /\ pc = "raised"
    /\ posts # <<>>
    /\ files = EmptyMap

\* C20 (as claimed): a flush never writes to the path of a segment that is
\* there already: every write adds a path and leaves the segments written
\* before as they were.
C20_FlushNeverOverwrites ==
    [][files' # files
       => /\ DOMAIN files' # DOMAIN files
          /\ \A p \in DOMAIN files : files'[p] = files[p]]_vars

\* ---- the registry of the segments --------------------------------------------
\* a save_files call with a non-empty list is about to be made: by the
\* backfill, or by a turn of the continuous loop
Flushing ==
    \/ pc = "save" /\ posts # <<>>
    \/ pc = "listen" /\ (FlushDue \/ (StopRequested /\ continuous_posts # <<>>))

\* the name of the segment of that call
SegmentPath ==
    IF pc = "save" THEN SubfilePath(DOMAIN markers = {}) ELSE SubfilePath(FALSE)

KnownSuffix == suffix \in {"ndjson", "csv"}

NoDuplicateRows(tbl) ==
    \A i, j \in DOMAIN tbl :
        (tbl[i].key = tbl[j].key /\ tbl[i].file_path = tbl[j].file_path) => i = j

\* C21: the table never holds two rows with the same key and file path; a
\* step changes of the rows it finds nothing but the uploaded date and adds
\* at most one row; a registration, by the collector or by the upload
\* processor, of a pair that has a row adds none and the object it
\* constructs has the fields of that row.
C21_RegistrationIsIdempotent ==
    [][/\ NoDuplicateRows(rows)
       /\ NoDuplicateRows(rows')
       /\ Len(rows') \in {Len(rows), Len(rows) + 1}
       /\ \A i \in DOMAIN rows :
            rows'[i] = [rows[i] EXCEPT !.uploaded_date = rows'[i].uploaded_date]
       /\ (Flushing /\ KnownSuffix /\ (Tick \/ SaveBackfill)
              /\ Current(rows, DatasetKey, SegmentPath) # {})
          => /\ Len(rows') = Len(rows)
             /\ ~record'.is_new
             /\ \E i \in DOMAIN rows : record'.row = rows[i]
       /\ \A name \in UploadNames :
            (UploadProcessor(name, TRUE) /\ Current(rows, DatasetKey, name) # {})
            => /\ Len(rows') = Len(rows)
               /\ ~record'.is_new
               /\ \E i \in DOMAIN rows : record'.row = rows[i]]_vars

\* C21 witness: the collector and the upload processor have both registered,
\* the registration made last found its row, and that row is the only one of
\* its key and path.
C21_Witness ==
    /\ uploads = 1
    /\ subfiles # {}
    /\ ~record.is_new
    /\ record.row.key = DatasetKey
    /\ Cardinality(Current(rows, DatasetKey, record.row.file_path)) = 1
    /\ \E i \in DOMAIN rows : rows[i].key = OtherKey
                               /\ rows[i].file_path = record.row.file_path

C23_UnknownSuffixWritesNothing ==
    [][(Flushing /\ ~KnownSuffix /\ (Tick \/ SaveBackfill))
       => /\ pc' = "done"
          /\ error_status'
          /\ returned' = <<>>
          /\ files' = files
          /\ subfiles' = subfiles
          /\ rows' = rows
          /\ markers' = markers]_vars

\* C23 witness: the backfill of a dataset with another suffix has yielded
\* records and ended with the error; there is no segment.
C23_Witness ==
    /\ ~KnownSuffix
    /\ pc = "done"
    /\ error_status
    /\ posts # <<>>
    /\ files = EmptyMap
    /\ subfiles = {}
    /\ markers = EmptyMap

\* ---- the start and the end of get_items ---------------------------------------
\* C24: a run whose session is not authenticated ends before any fetch and its
\* session file is deleted; a run that fails to connect for another reason
\* also ends before any fetch, and its session file is left in place. A run
\* that did not connect never takes an entry of the work list.
C24_ConnectFailureEndsBeforeFetch ==
    [][/\ (pc = "connect" /\ connection' = "unauthorised")
          => (pc' = "done" /\ ~session_file' /\ returned' = <<>>)
       /\ (pc = "connect" /\ connection' = "failed")
          => (pc' = "done" /\ session_file' /\ returned' = <<>>)
       /\ connection \in {"unauthorised", "failed"}
          => /\ pc' \in {"done", "returned"}
             /\ processed' = 0
             /\ posts' = <<>>
             /\ files' = EmptyMap]_vars

\* C24 witness: get_items has returned after a start that found the session
\* not authenticated; the session file is gone and no entry was taken.
C24_Witness ==
    /\ pc = "returned"
    /\ connection = "unauthorised"
    /\ ~session_file
    /\ processed = 0

\* C25 (as claimed): a validate_query call for a form that passes the checks,
\* carries no security code and whose session is not signed in ends with the
\* request for further input, after at most one attempt.
C25_NoCodeAlwaysNeedsInput ==
    [][(calls' = calls + 1 /\ Accepted(form') /\ form'.code = "none" /\ ~signed_in)
       => /\ vq' = "needs_input"
          /\ sign_ins' <= 1
          /\ code_requests' <= code_requests + 1]_vars

\* C25 (amended): a validate_query call without a security code for a session
\* that is not signed in never returns parameters and never signs the session
\* in, however often it is repeated; it ends with the request for further
\* input exactly when the form passes the checks and the upstream accepts the
\* start, and with a parameter error otherwise; it asks for at most one code
\* and makes no sign-in attempt.
C25_NoCodeNeverReturnsParameters ==
    [][(calls' = calls + 1 /\ form'.code = "none" /\ ~signed_in)
       => /\ vq' \in {"needs_input", "rejected"}
          /\ vq' = "needs_input" <=> (Accepted(form') /\ answer' = "ok")
          /\ ~signed_in'
          /\ ~credentials'
          /\ pc' = "form"
          /\ sign_ins' = 0
          /\ code_requests' = code_requests + (IF vq' = "needs_input" THEN 1 ELSE 0)]_vars

\* C25 witness: the form was submitted twice without a code for a session that
\* is not signed in, and both calls have asked for further input.
C25_Witness ==
    /\ calls = 2
    /\ vq = "needs_input"
    /\ form.code = "none"
    /\ code_requests = 2
    /\ ~signed_in

\* C26 (as claimed): when get_items has ended, by returning or by the
\* interruption error, and save-session is off, the credentials are no longer
\* stored in the dataset.
C26_CredentialsDeletedWhenGetItemsEnds ==
    (pc \in {"returned", "raised"} /\ ~parameters.save_session) => ~credentials

\* C27 (as claimed): no identifier is in the work list twice.
C27_WorkListHasNoDuplicates ==
    \A i, j \in DOMAIN queries : i # j => queries[i] # queries[j]

\* C28 (as claimed): the progress reported last is the number of entries whose
\* collection has finished over the length of the work list, it is 1 only
\* when the last entry has finished, and it lies between 0 and 1.
C28_ProgressIsFinishedShare ==
    /\ pc \in {"fetch", "iter"} => progress = <<processed - 1, Len(queries)>>
    /\ progress[1] = progress[2]
       => (processed = Len(queries) /\ pc \notin {"fetch", "iter"})
    /\ 0 <= progress[1]
    /\ progress[1] <= progress[2]

\* C29 (as claimed): in every segment the records of an entity are in
\* ascending order of their message ids.
C29_SegmentsAreOldestFirst ==
    \A p \in DOMAIN files :
        \A a, b \in DOMAIN files[p] :
            (a < b /\ files[p][a].chan = files[p][b].chan
                   /\ files[p][a].q = files[p][b].q)
            => files[p][a].id <= files[p][b].id

\* C30 (as claimed): the continuous loop retries a timeout at most three
\* times, the wait doubling from 10 seconds, and then stops listening.
C30_ListenTimeoutRetriesBounded ==
    pc = "listen" => delay <= InitialDelay * 8

\* ---- checkpoints and the accumulator at the end of the loop -----------------
\* C36 (as claimed): no step lowers the checkpoint marker of a channel or
\* removes it, and after a step that changes the markers the marker of every
\* channel is the highest message id of that channel in the persisted
\* segments, also when a forward notice has delivered an older message after
\* newer ones.
C36_MarkerNeverDecreases ==
    [][/\ \A key \in DOMAIN markers :
              /\ key \in DOMAIN markers'
              /\ markers'[key] >= markers[key]
       /\ markers' # markers
          => \A c \in Chats :
               MarkerKey(c) \in DOMAIN markers'
               => LET ids == UNION {IdsOf(files'[p], c) : p \in DOMAIN files'}
                  IN  ids # {} /\ markers'[MarkerKey(c)] = Max(ids)]_vars

\* C37 (as claimed): when the continuous loop is left without an error being
\* reported (stop signal, max_date, rate limit beyond the ceiling), every
\* record the handlers had added to the accumulator is in a written segment.
C37_NoRecordDroppedAtExit ==
    [][(pc = "listen" /\ pc' = "done" /\ ~error_status')
       => \A k \in DOMAIN continuous_posts :
            \E p \in DOMAIN files' :
                \E j \in DOMAIN files'[p] : files'[p][j] = continuous_posts[k]]_vars

\* ---- the limit per entity and the linked channels ------------------------------
\* the message items of chat c inside the date window
MessageItems(c) ==
    {k \in DOMAIN upstream[c] :
        /\ ~upstream[c][k].action
        /\ min_date = None \/ upstream[c][k].date >= min_date
        /\ max_date = None \/ upstream[c][k].date <= max_date}

\* C34 (as claimed): items skipped as non-message events do not use up the
\* limit: an entry whose collection has ended and whose entity has at least
\* max_items message items inside the date window has yielded exactly
\* max_items records.
C34_SkippedEventsDoNotCount ==
    \A i \in DOMAIN outcome :
        (/\ outcome[i][1] \in Complete
         /\ Cardinality(MessageItems(ChatOf(queries[i]))) >= max_items)
        => Cardinality(YieldedBy(i)) = max_items

\* the linked discussion channels the messages upstream name
LinkedChannels ==
    UNION {{upstream[e][k].replies : k \in DOMAIN upstream[e]} : e \in Chats}
        \ {None}

\* C40 (as claimed): with an upstream that answers every request the work
\* list stays finite: the entries appended to the user's entities are never
\* more than the linked channels the messages name, also when the message of
\* an appended channel names a linked channel itself.
C40_WorkListStaysFinite ==
    Len(queries) - Len(parameters.query) <= Cardinality(LinkedChannels)

\* ---- the session codes and the session file ---------------------------------
\* C35 (as claimed): a call of validate_query that hands out a code from the
\* pool of unused codes leaves a pool that does not hold that code, whatever
\* the pool held, a single code included.
C35_HandedCodeLeavesPool ==
    [][(/\ temp_session_code = NoCode
        /\ temp_session_code' # NoCode
        /\ tg_codes # <<>>)
       => \A k \in DOMAIN Split(tg_codes') :
              Split(tg_codes')[k] # temp_session_code']_vars

\* the session name get_images of the image downloader makes its client with
DownloaderSession == SessionName(Get(StoredParameters, SessionCodeKey))

\* C39 (as claimed): the session file the collection run opens, and the one
\* the image downloader opens, is the one validate_query authenticated for
\* the stored parameters, the code suffix included.
C39_SameSessionArtifact ==
    opened # NoSession
    => /\ opened = authenticated
       /\ DownloaderSession = authenticated

\* ---- the client at the end of execute_queries --------------------------------
\* C38 (as claimed): when execute_queries has ended after the client was
\* made, the client has been disconnected.
C38_ClientDisconnectedAtEnd ==
    (pc \in {"done", "returned", "raised"} /\ client # "none")
    => client = "disconnected"

\* ---- the caches of resolve_groups ---------------------------------------------
\* C31 (as claimed): in a run no id is requested upstream more than once, and
\* the two caches are empty when the run starts.
C31_EachIdLookedUpAtMostOnce ==
    /\ \A i \in Ids : lookups[i] <= 1
    /\ pc = "connect" => (details_cache = {} /\ failures_cache = {})

\* ---- the static methods --------------------------------------------------------
\* C32 (as claimed): what serialize_obj has returned is returned unchanged,
\* nested mappings included, when serialize_obj is applied to it.
C32_SerializeIsIdempotent ==
    result.kind # "unset" => serialize_obj(result) = result

\* C33 (as claimed): map_item never raises and returns a record with every
\* field of an item, whatever optional parts (chat, sender, media and its
\* parts, contact data, forward) the message has.
C33_MapItemNeverRaises ==
    result.kind # "unset" =>
        /\ ~Raised(result)
        /\ result.kind = "dict"
        /\ DOMAIN result.val = ItemFields

====
